---- MODULE Spec2Model ----
(***************************************************************************)
(* Forest-Carbon-Estimation-Tool: the VCS credit calculation               *)
(* (backend/app/services/carbon_calculator.py), the forest detector's      *)
(* entry points (backend/app/services/forest_detector.py) and the          *)
(* per-forest calculation loop (backend/app/processing/carbon_calculator).  *)
(*                                                                         *)
(* Numbers.  The code computes in floating point; the model computes the   *)
(* same expressions exactly, in fixed point:                               *)
(*   areas        in 1/20 ha           (0.05 ha = 1, 1 ha = 20)            *)
(*   densities    in 50 tC/ha          (100 tC/ha = 2, 150 tC/ha = 3)      *)
(*   carbon       in 1/1200 tC, CO2e in 1/1200 tCO2e                       *)
(*   fractions    in percent           (0.30 = 30)                         *)
(*   confidences  in hundredths        (0.8 = 80)                          *)
(* Every amount the calculation produces is a multiple of 3/1200, and      *)
(* every amount a percentage is taken of is a multiple of 60/1200, so all  *)
(* divisions below are exact (TypeOK states it).  The rounding of floats   *)
(* is modelled apart, for steps 5 to 8, in the fl_ variables.              *)
(***************************************************************************)
EXTENDS Integers, Sequences, FiniteSets, TLC

VARIABLES
    pc,                 \* position of the credit calculation run
    project,            \* [has_geometry, geometry_area]: the boundary, its area in 1/20 ha
    ecosystem,          \* [biomass_growth_rate]: 0 (unset) or 1 (a positive rate)
    project_age_years,
    baseline_scenario,
    forest_analysis,    \* what forest_detector.detect_area handed to the run
    project_carbon_stock,
    baseline_carbon_stock,
    net_carbon_benefit,
    leakage_deduction,
    uncertainty_deduction,
    buffer_pool_contribution,
    verified_carbon_units_tCO2e,
    creditable_carbon_units_tCO2e,
    methodology_compliance,
    log,                \* warnings logged by the run
    error,              \* the exception that ended the run, "" if none
    \* a call into the forest detector
    d_entry,            \* the method called
    d_pc,               \* its position
    d_project,          \* [ecosystem_id, ecosystem_found] of the project of a credit run
    d_image,            \* [file, colour, pixels]: the image argument
    d_scale,            \* scale_factor, in decimetres per pixel
    d_forest_type,      \* forest_type of _calculate_forest_area_by_type
    d_area_result,      \* total_area_result: what the area calculation returns
    d_use_ai,           \* use_ai of detect_area_comprehensive
    d_ai,               \* how the AI detector behaves when called
    d_ai_coverage,      \* coverage_percent of the result the AI detector returns
    d_result,           \* the detection result returned
    d_error,            \* the exception that ended the call, "" if none
    d_log,              \* warnings and errors logged by the call
    \* CarbonCalculator.run_full_calculation
    f_pc,               \* position in the loop over the project's forests
    f_forests,          \* the project's forests: what each one's calculation does
    f_index,            \* the forest being calculated (1-based)
    f_results,          \* results_summary
    f_error,            \* the exception run_full_calculation raised, "" if none
    f_session,          \* records added to the session and not yet committed
    f_committed,        \* records committed
    f_active,           \* whether the session's transaction can still be used
    f_biomass,          \* what _calculate_biomass_for_plot made of the current forest's plot
    f_total_co2e,       \* total_co2e of the current forest's CarbonStock record
    f_baseline_co2e,    \* baseline_co2e of the current forest's Baseline record
    f_credits,          \* the CarbonCredit records written, with the amounts they link to
    \* ai_forest_detector.detect_forest_comprehensive, at a pixel of a uniform image
    a_pc,               \* position in the method
    a_models,           \* the keys of self.models: the models that were loaded
    a_segformer,        \* per SegFormer model: [vegetation, prob] of the predicted class
    a_yolo_box,         \* whether a YOLO detection box covers the pixel
    a_traditional,      \* the four masks of the enhanced traditional detection
    all_masks,          \* the detectors' masks at the pixel (0 or 255), in order
    all_confidences,    \* the detectors' confidence maps at the pixel, in hundredths
    detection_methods,  \* the detectors' names, in order
    final_mask,         \* the mask of the result at the pixel
    confidence_map,     \* the confidence map of the result at the pixel: [num, den]
    confidence_score,   \* the confidence score of the result: [num, den]
    \* two calls of _simple_forest_detection running at the same time
    r_pc,               \* per run: its position in the traditional detection
    r_image,            \* per run: the image it detects on
    r_result,           \* per run: the result it returned
    debug_dir,           \* the files of /tmp/forest_debug: name -> content
    \* steps 5 to 8 of the credit calculation in floating point
    fl_pc,              \* position of the run
    fl_forest_analysis, \* [total_area_ha, uncertainty_assessment]
    fl_project,         \* the project, with a boundary geometry
    fl_net,             \* net_carbon_benefit, a float
    fl_leakage,         \* leakage_deduction, a float
    fl_uncertainty,     \* uncertainty_deduction, a float
    fl_buffer,          \* buffer_pool_contribution, a float
    fl_creditable_tC,   \* creditable_carbon_tC, a float, before the clamp
    fl_creditable_units, \* creditable_carbon_units_tCO2e, a float
    \* endpoints/p2p.py: concurrent purchase_credits requests on one listing
    p_pc,               \* per request: position in purchase_credits
    p_listing,          \* the listing's row: quantity and status
    p_listed,           \* the quantity the listing was created with
    p_loaded,           \* per request: listing.quantity as loaded at line 69
    p_quantity,         \* per request: purchase_in.quantity
    p_tx                \* per request: status of its transaction row, "none" before

calcVars == <<pc, project, ecosystem, project_age_years, baseline_scenario,
              forest_analysis, project_carbon_stock, baseline_carbon_stock,
              net_carbon_benefit, leakage_deduction, uncertainty_deduction,
              buffer_pool_contribution, verified_carbon_units_tCO2e,
              creditable_carbon_units_tCO2e, methodology_compliance, log, error>>

detVars == <<d_entry, d_pc, d_project, d_image, d_scale, d_forest_type, d_use_ai,
             d_ai, d_ai_coverage, d_result, d_area_result, d_error, d_log>>

forestVars == <<f_pc, f_forests, f_index, f_results, f_error, f_session, f_committed,
                f_active, f_biomass, f_total_co2e, f_baseline_co2e, f_credits>>

ensVars == <<a_pc, a_models, a_segformer, a_yolo_box, a_traditional, all_masks,
             all_confidences, detection_methods, final_mask, confidence_map,
             confidence_score>>

runVars == <<r_pc, r_image, r_result, debug_dir>>

floatVars == <<fl_pc, fl_forest_analysis, fl_project, fl_net, fl_leakage,
               fl_uncertainty, fl_buffer, fl_creditable_tC, fl_creditable_units>>
purchaseVars == <<p_pc, p_listing, p_listed, p_loaded, p_quantity, p_tx>>

vars == <<calcVars, detVars, forestVars, ensVars, runVars, floatVars, purchaseVars>>

-----------------------------------------------------------------------------
(* Units *)

Ha(n) == 20 * n                  \* n hectares
TenthHa(n) == 2 * n              \* n/10 hectares
Conf(h) == h                     \* h hundredths

\* x tC/ha over a area units, times g halves of growth, in 1/1200 tC
StockOf(a, d, g) == a * d * g * 1500
\* a area units at density d, of which p percent remain, in 1/1200 tC
ShareOf(a, d, p) == a * d * p * 30
\* p percent of amount x (x a multiple of 60, p a multiple of 5)
Pct(x, p) == (x \div 20) * (p \div 5)

Max(a, b) == IF a >= b THEN a ELSE b
Min(a, b) == IF a <= b THEN a ELSE b

RECURSIVE SumSeq(_)
SumSeq(s) == IF s = <<>> THEN 0 ELSE Head(s) + SumSeq(Tail(s))

-----------------------------------------------------------------------------
(* vcs_parameters, carbon_calculator.py:53-63 *)

\* 'co2_to_c_ratio': 44/12, applied to an amount that is a multiple of 3
Co2ToC(x) == (x \div 3) * 11
buffer_pool_minimum == 10
leakage_belt_factor == 15

-----------------------------------------------------------------------------
(* forest_detector.py: _assess_uncertainty and the result of detect_area *)

\* an assessment that leaves out the area-based adjustment
AssessUncertaintyIgnoringArea(overall_confidence, total_area) ==
    LET level0 == IF overall_confidence >= Conf(80) THEN "low"
                  ELSE IF overall_confidence >= Conf(60) THEN "medium"
                  ELSE "high"
        pct0   == IF overall_confidence >= Conf(80) THEN 10
                  ELSE IF overall_confidence >= Conf(60) THEN 20
                  ELSE 35
    IN  [uncertainty_level      |-> level0,
         uncertainty_percentage |-> pct0,
         confidence_score       |-> overall_confidence,
         vcs_compliant          |-> TRUE,
         recommended_buffer     |-> pct0 * 15]

\* recommended_buffer, uncertainty_percentage * 1.5, is in tenths of a percent
AssessUncertainty(overall_confidence, total_area) ==
    LET level0 == IF overall_confidence >= Conf(80) THEN "low"
                  ELSE IF overall_confidence >= Conf(60) THEN "medium"
                  ELSE "high"
        pct0   == IF overall_confidence >= Conf(80) THEN 10
                  ELSE IF overall_confidence >= Conf(60) THEN 20
                  ELSE 35
        small  == total_area < Ha(1)
        pct    == IF small THEN pct0 + 10 ELSE pct0
    IN  [uncertainty_level      |-> IF small THEN "high" ELSE level0,
         uncertainty_percentage |-> pct,
         confidence_score       |-> overall_confidence,
         vcs_compliant          |-> TRUE,
         recommended_buffer     |-> pct * 15]

\* The dictionary detect_area returns, built from total_area_result
\* (the keys the credit calculation reads).  It has no 'forest_types' key:
\* forest_types is the value of forest_analysis.get('forest_types', []).
DetectAreaResults(total_area_result) ==
    [total_area_ha                 |-> total_area_result.area_ha,
     weighted_carbon_density_tC_ha |-> total_area_result.carbon_density,
     forest_types                  |-> <<>>,
     uncertainty_assessment        |->
         AssessUncertainty(total_area_result.confidence, total_area_result.area_ha)]

-----------------------------------------------------------------------------
(* carbon_calculator.py: the steps of calculate_vcs_compliant_credits *)

\* 1 - exp(-rate * age), in halves: 0 at age 0, strictly between 0 and 1
\* afterwards (represented by 1/2)
GrowthFactor(rate, age) == IF age = 0 THEN 0 ELSE 1

CalculateProjectCarbonStock(fa, age, eco) ==
    LET g == IF eco.biomass_growth_rate # 0
             THEN GrowthFactor(eco.biomass_growth_rate, age)
             ELSE 2
        one(t) == StockOf(t.area_ha, t.carbon_density_tC_ha, g)
    IN  SumSeq([i \in 1..Len(fa.forest_types) |-> one(fa.forest_types[i])])

KnownScenarios == {"historical_deforestation", "business_as_usual", "degradation"}

CalculateBaselineScenario(fa, scenario) ==
    LET a == fa.total_area_ha
        d == fa.weighted_carbon_density_tC_ha
    IN  IF scenario = "historical_deforestation"
        THEN [stock |-> ShareOf(a, d, Max(0, 100 - 2)), warned |-> FALSE]
        ELSE IF scenario = "business_as_usual"
        THEN [stock |-> ShareOf(a, d, 100 - 50), warned |-> FALSE]
        ELSE IF scenario = "degradation"
        THEN [stock |-> ShareOf(a, d, 100 - 30), warned |-> FALSE]
        ELSE [stock |-> ShareOf(a, d, 100), warned |-> TRUE]

\* a leakage factor without the cap: market plus activity displacement
TotalLeakageFactorUncapped(fa) ==
    LET project_area_ha == fa.total_area_ha
        market == IF project_area_ha > Ha(1000) THEN 20
                  ELSE IF project_area_ha > Ha(100) THEN 15
                  ELSE 10
    IN  market + leakage_belt_factor

TotalLeakageFactor(fa) ==
    LET project_area_ha == fa.total_area_ha
        market == IF project_area_ha > Ha(1000) THEN 20
                  ELSE IF project_area_ha > Ha(100) THEN 15
                  ELSE 10
    IN  Min(30, market + leakage_belt_factor)

CalculateLeakageDeduction(net, fa) == Pct(net, TotalLeakageFactor(fa))

\* a deduction that falls with the uncertainty: the confidence share deducted
CalculateUncertaintyDeductionComplement(net, ua) ==
    Pct(net, 100 - ua.uncertainty_percentage)

CalculateUncertaintyDeduction(net, ua) == Pct(net, ua.uncertainty_percentage)

\* _get_project_area_ha raises ValueError when the project has no geometry
HasGeometry(p) == p.has_geometry

TotalBufferPercentage(p, ua) ==
    LET risk == IF ua.uncertainty_level = "high" THEN 15
                ELSE IF ua.uncertainty_level = "medium" THEN 10
                ELSE 5
        size_risk == IF p.geometry_area < Ha(100) THEN 5 ELSE 0
    IN  Min(30, buffer_pool_minimum + risk + size_risk)

CalculateBufferPoolContribution(net, p, ua) == Pct(net, TotalBufferPercentage(p, ua))

\* verified units with the leakage added to the net benefit instead of deducted
VerifiedUnitsLeakageAdded(net, leak) == Co2ToC(net + leak)

VerifiedUnits(net, leak) == Co2ToC(net - leak)

CreditableUnits(net, leak, unc, buf) == Max(0, Co2ToC(((net - leak) - unc) - buf))

BoolCount(b) == IF b THEN 1 ELSE 0

AssessMethodologyCompliance(fa, ua) ==
    LET checks == [forest_area_threshold     |-> fa.total_area_ha >= TenthHa(5),
                   confidence_threshold       |-> ua.confidence_score >= Conf(30),
                   uncertainty_assessment     |-> ua.vcs_compliant,
                   additionality_demonstrated |-> TRUE,
                   baseline_established       |-> TRUE,
                   monitoring_plan            |-> TRUE]
        passed == BoolCount(checks.forest_area_threshold)
                  + BoolCount(checks.confidence_threshold)
                  + BoolCount(checks.uncertainty_assessment)
                  + BoolCount(checks.additionality_demonstrated)
                  + BoolCount(checks.baseline_established)
                  + BoolCount(checks.monitoring_plan)
    IN  [individual_checks |-> checks,
         passed            |-> passed,
         \* compliance_score = passed / 6 >= 0.8
         vcs_eligible      |-> passed * 10 >= 6 * 8]

-----------------------------------------------------------------------------
(* The inputs of a run *)

Areas == {0, 1, TenthHa(5), Ha(1), Ha(100), Ha(100) + 1, Ha(1000), Ha(1000) + 1}
Densities == {2, 3}
Confidences == {Conf(0), Conf(25), Conf(30), Conf(60), Conf(80)}
Scenarios == KnownScenarios \cup {"no_such_scenario"}
Projects == {[has_geometry |-> FALSE, geometry_area |-> 0]}
            \cup {[has_geometry |-> TRUE, geometry_area |-> a] : a \in {Ha(50), Ha(100)}}

\* The per-type breakdowns a forest analysis can carry for a detected area a:
\* none, one type over the whole area, or two types sharing it.
TypeLists(a) ==
    {<<>>}
    \cup {<<[area_ha |-> a, carbon_density_tC_ha |-> d]>> : d \in Densities}
    \cup {<<[area_ha |-> 1, carbon_density_tC_ha |-> d1],
            [area_ha |-> a - 1, carbon_density_tC_ha |-> d2]>> :
          d1 \in {d \in Densities : a > 1}, d2 \in {d \in Densities : a > 1}}

NoCompliance ==
    [individual_checks |-> [forest_area_threshold |-> FALSE,
                            confidence_threshold |-> FALSE,
                            uncertainty_assessment |-> FALSE,
                            additionality_demonstrated |-> FALSE,
                            baseline_established |-> FALSE,
                            monitoring_plan |-> FALSE],
     passed |-> 0, vcs_eligible |-> FALSE]

CalcInit ==
    /\ pc = "stock"
    /\ project \in Projects
    /\ ecosystem \in [biomass_growth_rate : {0, 1}]
    /\ project_age_years \in {0, 1}
    /\ baseline_scenario \in Scenarios
    /\ \E area \in Areas, d \in Densities, c \in Confidences :
         \E types \in TypeLists(area) :
            forest_analysis =
                [DetectAreaResults([area_ha |-> area, carbon_density |-> d,
                                    confidence |-> c])
                 EXCEPT !.forest_types = types]
    /\ project_carbon_stock = 0
    /\ baseline_carbon_stock = 0
    /\ net_carbon_benefit = 0
    /\ leakage_deduction = 0
    /\ uncertainty_deduction = 0
    /\ buffer_pool_contribution = 0
    /\ verified_carbon_units_tCO2e = 0
    /\ creditable_carbon_units_tCO2e = 0
    /\ methodology_compliance = NoCompliance
    /\ log = {}
    /\ error = ""

-----------------------------------------------------------------------------
(* calculate_vcs_compliant_credits, steps 2 to 9 *)

\* a control flow that starts the calculation again after its last step
StepAfterReentering(p) ==
    CASE p = "stock"       -> "baseline"
      [] p = "baseline"    -> "net"
      [] p = "net"         -> "leakage"
      [] p = "leakage"     -> "uncertainty"
      [] p = "uncertainty" -> "buffer"
      [] p = "buffer"      -> "finalize"
      [] p = "finalize"    -> "stock"

\* The statements of the function body follow one another: the step that
\* runs after step p has returned its value (lines 141-196).
StepAfter(p) ==
    CASE p = "stock"       -> "baseline"
      [] p = "baseline"    -> "net"
      [] p = "net"         -> "leakage"
      [] p = "leakage"     -> "uncertainty"
      [] p = "uncertainty" -> "buffer"
      [] p = "buffer"      -> "finalize"
      [] p = "finalize"    -> "done"

StepStock ==
    /\ pc = "stock"
    /\ project_carbon_stock' =
           CalculateProjectCarbonStock(forest_analysis, project_age_years, ecosystem)
    /\ pc' = StepAfter("stock")
    /\ UNCHANGED <<project, ecosystem, project_age_years, baseline_scenario,
                   forest_analysis, baseline_carbon_stock, net_carbon_benefit,
                   leakage_deduction, uncertainty_deduction, buffer_pool_contribution,
                   verified_carbon_units_tCO2e, creditable_carbon_units_tCO2e,
                   methodology_compliance, log, error>>

StepBaseline ==
    /\ pc = "baseline"
    /\ LET b == CalculateBaselineScenario(forest_analysis, baseline_scenario)
       IN  /\ baseline_carbon_stock' = b.stock
           /\ log' = IF b.warned THEN log \cup {"unknown_baseline_scenario"} ELSE log
    /\ pc' = StepAfter("baseline")
    /\ UNCHANGED <<project, ecosystem, project_age_years, baseline_scenario,
                   forest_analysis, project_carbon_stock, net_carbon_benefit,
                   leakage_deduction, uncertainty_deduction, buffer_pool_contribution,
                   verified_carbon_units_tCO2e, creditable_carbon_units_tCO2e,
                   methodology_compliance, error>>

StepNet ==
    /\ pc = "net"
    /\ net_carbon_benefit' = Max(0, project_carbon_stock - baseline_carbon_stock)
    /\ pc' = StepAfter("net")
    /\ UNCHANGED <<project, ecosystem, project_age_years, baseline_scenario,
                   forest_analysis, project_carbon_stock, baseline_carbon_stock,
                   leakage_deduction, uncertainty_deduction, buffer_pool_contribution,
                   verified_carbon_units_tCO2e, creditable_carbon_units_tCO2e,
                   methodology_compliance, log, error>>

StepLeakage ==
    /\ pc = "leakage"
    /\ leakage_deduction' = CalculateLeakageDeduction(net_carbon_benefit, forest_analysis)
    /\ pc' = StepAfter("leakage")
    /\ UNCHANGED <<project, ecosystem, project_age_years, baseline_scenario,
                   forest_analysis, project_carbon_stock, baseline_carbon_stock,
                   net_carbon_benefit, uncertainty_deduction, buffer_pool_contribution,
                   verified_carbon_units_tCO2e, creditable_carbon_units_tCO2e,
                   methodology_compliance, log, error>>

StepUncertainty ==
    /\ pc = "uncertainty"
    /\ uncertainty_deduction' =
           CalculateUncertaintyDeduction(net_carbon_benefit,
                                         forest_analysis.uncertainty_assessment)
    /\ pc' = StepAfter("uncertainty")
    /\ UNCHANGED <<project, ecosystem, project_age_years, baseline_scenario,
                   forest_analysis, project_carbon_stock, baseline_carbon_stock,
                   net_carbon_benefit, leakage_deduction, buffer_pool_contribution,
                   verified_carbon_units_tCO2e, creditable_carbon_units_tCO2e,
                   methodology_compliance, log, error>>

StepBuffer ==
    /\ pc = "buffer"
    /\ IF HasGeometry(project)
       THEN /\ buffer_pool_contribution' =
                   CalculateBufferPoolContribution(net_carbon_benefit, project,
                                                   forest_analysis.uncertainty_assessment)
            /\ pc' = StepAfter("buffer")
            /\ UNCHANGED error
       ELSE /\ pc' = "raised"
            /\ error' = "ValueError: Project has no geometry."
            /\ UNCHANGED buffer_pool_contribution
    /\ UNCHANGED <<project, ecosystem, project_age_years, baseline_scenario,
                   forest_analysis, project_carbon_stock, baseline_carbon_stock,
                   net_carbon_benefit, leakage_deduction, uncertainty_deduction,
                   verified_carbon_units_tCO2e, creditable_carbon_units_tCO2e,
                   methodology_compliance, log>>

StepFinalize ==
    /\ pc = "finalize"
    /\ verified_carbon_units_tCO2e' = VerifiedUnits(net_carbon_benefit, leakage_deduction)
    /\ creditable_carbon_units_tCO2e' =
           CreditableUnits(net_carbon_benefit, leakage_deduction,
                           uncertainty_deduction, buffer_pool_contribution)
    /\ methodology_compliance' =
           AssessMethodologyCompliance(forest_analysis,
                                       forest_analysis.uncertainty_assessment)
    /\ pc' = StepAfter("finalize")
    /\ UNCHANGED <<project, ecosystem, project_age_years, baseline_scenario,
                   forest_analysis, project_carbon_stock, baseline_carbon_stock,
                   net_carbon_benefit, leakage_deduction, uncertainty_deduction,
                   buffer_pool_contribution, log, error>>

CalcNext ==
    \/ StepStock
    \/ StepBaseline
    \/ StepNet
    \/ StepLeakage
    \/ StepUncertainty
    \/ StepBuffer
    \/ StepFinalize

-----------------------------------------------------------------------------
(* forest_detector.py: the detector's entry points *)

\* Uniform images, by how the four traditional detectors of
\* _simple_forest_detection answer on their colour (B, G, R):
\*   white      (255, 255, 255): HSV (0, 0, 255) outside the green range, LAB a = 128,
\*              g > 0.8 r and g > 0.8 b, ExG = 0
\*   dark_green (40, 100, 40):   HSV (60, 153, 100) inside, LAB a < 127,
\*              g > 0.8 r and g > 0.8 b, ExG = 120
\*   brown      (40, 80, 120):   HSV hue 15 outside, LAB a > 127, g < 0.8 r, ExG = 0
\*   bright_green (60, 200, 60): HSV (60, 178, 200) inside, LAB a < 127,
\*              g > 0.8 r and g > 0.8 b, ExG = 280
\*   vivid_green (0, 255, 0):    HSV (60, 255, 255) inside, LAB a < 127,
\*              g > 0.8 r and g > 0.8 b, ExG = 510
Colours == {"white", "dark_green", "brown", "bright_green", "vivid_green"}

Greens == {"dark_green", "bright_green", "vivid_green"}

\* the pixel value of a colour, in the channel order of the image array
BGR(c) ==
    CASE c = "white"        -> <<255, 255, 255>>
      [] c = "dark_green"   -> <<40, 100, 40>>
      [] c = "brown"        -> <<40, 80, 120>>
      [] c = "bright_green" -> <<60, 200, 60>>
      [] c = "vivid_green"  -> <<0, 255, 0>>

hsv_mask(c) == c \in Greens
lab_mask(c) == c \in Greens
rgb_mask(c) == BGR(c)[2] * 10 > BGR(c)[3] * 8 /\ BGR(c)[2] * 10 > BGR(c)[1] * 8
exg_mask(c) == 2 * BGR(c)[2] - BGR(c)[3] - BGR(c)[1] > 10

\* the broader HSV range of the relaxed detection of
\* _calculate_forest_area_by_type: hue 20..100, saturation and value from 15
relaxed_hsv_mask(c) == c \in Greens

\* cv2.inRange on one pixel
InRange(v, lower, upper) == \A k \in 1..3 : lower[k] <= v[k] /\ v[k] <= upper[k]

\* vietnamese_forest_signatures: the colour ranges and densities (tC/ha, t/ha) of
\* each forest type
vietnamese_forest_signatures ==
    [evergreen_broadleaf |->
        [rgb_ranges |-> << <<(<<0, 30, 0>>), (<<100, 150, 100>>)>>,
                           <<(<<10, 40, 10>>), (<<90, 140, 90>>)>>,
                           <<(<<20, 50, 20>>), (<<110, 160, 110>>)>>,
                           <<(<<30, 60, 30>>), (<<120, 180, 120>>)>> >>,
         carbon_density |-> 120, biomass_density |-> 240],
     deciduous_dipterocarp |->
        [rgb_ranges |-> << <<(<<20, 40, 10>>), (<<120, 160, 100>>)>>,
                           <<(<<30, 50, 20>>), (<<130, 170, 110>>)>>,
                           <<(<<40, 60, 30>>), (<<140, 180, 120>>)>> >>,
         carbon_density |-> 80, biomass_density |-> 160],
     mangrove |->
        [rgb_ranges |-> << <<(<<0, 20, 0>>), (<<80, 120, 80>>)>>,
                           <<(<<10, 30, 10>>), (<<90, 130, 90>>)>>,
                           <<(<<5, 25, 5>>), (<<85, 125, 85>>)>>,
                           <<(<<0, 40, 20>>), (<<70, 140, 100>>)>> >>,
         carbon_density |-> 150, biomass_density |-> 300],
     bamboo_forest |->
        [rgb_ranges |-> << <<(<<30, 60, 20>>), (<<140, 200, 140>>)>>,
                           <<(<<40, 70, 30>>), (<<150, 210, 150>>)>>,
                           <<(<<50, 80, 40>>), (<<160, 220, 160>>)>> >>,
         carbon_density |-> 60, biomass_density |-> 120],
     melaleuca |->
        [rgb_ranges |-> << <<(<<10, 40, 10>>), (<<100, 150, 100>>)>>,
                           <<(<<20, 50, 20>>), (<<110, 160, 110>>)>>,
                           <<(<<15, 45, 15>>), (<<105, 155, 105>>)>> >>,
         carbon_density |-> 100, biomass_density |-> 200],
     planted_acacia |->
        [rgb_ranges |-> << <<(<<20, 50, 10>>), (<<120, 170, 110>>)>>,
                           <<(<<30, 60, 20>>), (<<130, 180, 120>>)>>,
                           <<(<<25, 55, 15>>), (<<125, 175, 115>>)>> >>,
         carbon_density |-> 70, biomass_density |-> 140]]

ForestTypeNames == DOMAIN vietnamese_forest_signatures

\* the type mask of a forest type on one pixel: the union of its ranges
InSignature(forest_type, c) ==
    LET ranges == vietnamese_forest_signatures[forest_type].rgb_ranges
    IN  \E k \in 1..Len(ranges) : InRange(BGR(c), ranges[k][1], ranges[k][2])

\* connectedComponentsWithStats: components smaller than min_size are removed
min_size == 50

\* Areas of the detector are in square decimetres (1 ha = 1000000), so that the
\* area of a mask is forest_pixels * scale_factor^2 exactly, for scales under a
\* metre per pixel too.
AreaOfPixels(n, scale) == n * scale * scale

DetHa(n) == n * 1000000

DetCentiHa(n) == n * 10000

\* the traditional part of _simple_forest_detection on a uniform image: at least
\* 2 of the 4 methods must agree; closing and opening keep a uniform mask; the
\* single component is kept when it has min_size pixels
TraditionalDetection(img, scale) ==
    LET combined == BoolCount(hsv_mask(img.colour)) + BoolCount(lab_mask(img.colour))
                    + BoolCount(rgb_mask(img.colour)) + BoolCount(exg_mask(img.colour))
        forest_pixels == IF combined >= 2 /\ img.pixels >= min_size
                         THEN img.pixels ELSE 0
    IN  [kind             |-> "result",
         forest_pixels    |-> forest_pixels,
         area_ha          |-> AreaOfPixels(forest_pixels, scale),
         coverage_percent |-> (forest_pixels * 100) \div img.pixels,
         detection_method |-> "Traditional Multi-Method Detection",
         confidence       |-> Conf(70)]

\* what ai_forest_detector.detect_forest_comprehensive returns, as the callers
\* read it
AIResult(img, scale, coverage) ==
    [kind             |-> "result",
     forest_pixels    |-> (img.pixels * coverage) \div 100,
     area_ha          |-> AreaOfPixels((img.pixels * coverage) \div 100, scale),
     coverage_percent |-> coverage,
     detection_method |-> "AI Ensemble",
     confidence       |-> Conf(80)]

NoResult ==
    [kind |-> "none", forest_pixels |-> 0, area_ha |-> 0, coverage_percent |-> 0,
     detection_method |-> "", confidence |-> 0]

\* AI_DETECTOR_AVAILABLE: the import of app.services.ai_forest_detector succeeded
AI_DETECTOR_AVAILABLE == d_ai # "unavailable"

Entries == {"calculate_vcs_compliant_credits", "detect_area",
            "_simple_forest_detection", "detect_area_comprehensive",
            "_calculate_total_forest_area", "_calculate_forest_area_by_type"}

\* the methods that take the image as an array
ArrayEntries == Entries \ {"calculate_vcs_compliant_credits", "detect_area"}

\* the methods that start with a call of _simple_forest_detection
SimpleCallers == {"_simple_forest_detection", "_calculate_total_forest_area",
                  "_calculate_forest_area_by_type"}

NoAreaResult ==
    [kind |-> "none", forest_pixels |-> 0, area_ha |-> 0, coverage_percent |-> 0,
     carbon_density |-> 0, biomass_density |-> 0, confidence |-> 0,
     detected_types |-> <<>>, type_pixels |-> [t \in ForestTypeNames |-> 0]]

DetTerminal == d_pc \in {"returned", "raised"}

DetInit ==
    /\ d_entry \in Entries
    /\ d_pc = "start"
    /\ d_project \in [ecosystem_id : BOOLEAN, ecosystem_found : BOOLEAN]
    /\ d_image \in [file : {"missing", "loadable", "array"}, colour : Colours,
                    pixels : {40, 200, 10000}]
    /\ d_image.file = "array" <=> d_entry \in ArrayEntries
    /\ d_entry \notin {"calculate_vcs_compliant_credits", "detect_area_comprehensive"} =>
           d_project = [ecosystem_id |-> TRUE, ecosystem_found |-> TRUE]
    /\ d_scale \in {5, 10, 100}
    /\ d_forest_type \in
           (IF d_entry = "_calculate_forest_area_by_type"
            THEN {"evergreen_broadleaf", "mangrove", "bamboo_forest"}
            ELSE {"none"})
    /\ d_use_ai \in BOOLEAN
    /\ d_entry # "detect_area_comprehensive" => d_use_ai
    /\ d_ai \in {"unavailable", "raises", "returns", "never_returns"}
    /\ d_ai_coverage \in {0, 1, 50, 100}
    /\ d_ai # "returns" => d_ai_coverage = 0
    /\ (d_image.pixels * d_ai_coverage) % 100 = 0
    /\ d_result = NoResult
    /\ d_area_result = NoAreaResult
    /\ d_error = ""
    /\ d_log = {}

\* the arguments of the call and the environment do not change
DetInputs == UNCHANGED <<d_entry, d_project, d_image, d_scale, d_forest_type,
                         d_use_ai, d_ai, d_ai_coverage>>

DetFrame == DetInputs /\ UNCHANGED d_area_result

\* calculate_vcs_compliant_credits, lines 127-139: the ecosystem checks, then the
\* call of detect_area
ValidateProject ==
    /\ d_entry = "calculate_vcs_compliant_credits"
    /\ d_pc = "start"
    /\ IF ~d_project.ecosystem_id
       THEN /\ d_pc' = "raised"
            /\ d_error' = "ValueError: Project requires an ecosystem assignment"
       ELSE IF ~d_project.ecosystem_found
       THEN /\ d_pc' = "raised"
            /\ d_error' = "ValueError: Ecosystem not found"
       ELSE /\ d_pc' = "imread"
            /\ UNCHANGED d_error
    /\ UNCHANGED <<d_result, d_log>>
    /\ DetFrame

\* detect_area, lines 220-223, called with an image path; and as
\* detect_area_comprehensive calls it, with the image array where the path belongs
\* (cv2.imread accepts a file name only)
LoadImage ==
    /\ \/ d_entry = "detect_area" /\ d_pc = "start"
       \/ d_pc = "imread"
    /\ IF d_image.file = "array"
       THEN /\ d_pc' = "raised"
            /\ d_error' = "TypeError: imread filename"
            /\ d_log' = d_log \cup {"Unexpected error during forest detection"}
       ELSE IF d_image.file = "missing"
       THEN /\ d_pc' = "raised"
            /\ d_error' = "FileNotFoundError: Could not load image"
            /\ d_log' = d_log \cup {"Image processing failed"}
       ELSE /\ d_pc' = "spectrum"
            /\ UNCHANGED <<d_error, d_log>>
    /\ UNCHANGED d_result
    /\ DetFrame

\* detect_area, line 228: _analyze_color_spectrum reaches KMeans(...) at line 357;
\* the name is neither imported nor defined in forest_detector.py, and the
\* NameError is logged and re-raised by lines 335-337
AnalyzeColorSpectrum ==
    /\ d_pc = "spectrum"
    /\ d_pc' = "raised"
    /\ d_error' = "NameError: name 'KMeans' is not defined"
    /\ d_log' = d_log \cup {"Unexpected error during forest detection"}
    /\ UNCHANGED d_result
    /\ DetFrame

\* where the result of _simple_forest_detection goes: to its caller
AfterSimple(entry) ==
    IF entry = "_simple_forest_detection" THEN "returned" ELSE "types"

\* _simple_forest_detection, lines 1216-1220: the AI detector is called when it
\* was imported; the call has no timeout
SimpleStart ==
    /\ d_entry \in SimpleCallers
    /\ d_pc = "start"
    /\ d_pc' = IF AI_DETECTOR_AVAILABLE THEN "ai_call" ELSE "traditional"
    /\ UNCHANGED <<d_result, d_error, d_log>>
    /\ DetFrame

\* lines 1220-1236: the AI call returns or raises; it never returns when the
\* detector hangs (no step is enabled then)
SimpleAIReturns ==
    /\ d_entry \in SimpleCallers
    /\ d_pc = "ai_call"
    /\ d_ai \in {"returns", "raises"}
    /\ IF d_ai = "returns" /\ d_ai_coverage > 1
       THEN /\ d_result' = AIResult(d_image, d_scale, d_ai_coverage)
            /\ d_pc' = AfterSimple(d_entry)
            /\ UNCHANGED d_log
       ELSE /\ d_pc' = "traditional"
            /\ d_log' = IF d_ai = "raises" THEN d_log \cup {"AI detection failed"}
                        ELSE d_log
            /\ UNCHANGED d_result
    /\ UNCHANGED d_error
    /\ DetFrame

\* lines 1238-1321
SimpleTraditional ==
    /\ d_entry \in SimpleCallers
    /\ d_pc = "traditional"
    /\ d_result' = TraditionalDetection(d_image, d_scale)
    /\ d_pc' = AfterSimple(d_entry)
    /\ UNCHANGED <<d_error, d_log>>
    /\ DetFrame

\* the forest types in the order the loop of _calculate_total_forest_area meets them
SignatureOrder == <<"evergreen_broadleaf", "deciduous_dipterocarp", "mangrove",
                    "bamboo_forest", "melaleuca", "planted_acacia">>

\* the pixels of a type's mask once it is combined with a forest mask of
\* mask_pixels pixels of a uniform image
TypePixels(forest_type, img, mask_pixels) ==
    IF InSignature(forest_type, img.colour) THEN mask_pixels ELSE 0

\* the forest types in order, without those outside keep
RECURSIVE SelectTypes(_, _)
SelectTypes(order, keep) ==
    IF order = <<>> THEN <<>>
    ELSE IF Head(order) \in keep
         THEN <<Head(order)>> \o SelectTypes(Tail(order), keep)
         ELSE SelectTypes(Tail(order), keep)

RECURSIVE SumOver(_, _)
SumOver(f, S) ==
    IF S = {} THEN 0
    ELSE LET x == CHOOSE y \in S : TRUE IN f[x] + SumOver(f, S \ {x})

\* the pixels of a mask that adds the accepted type masks up, pixels in several
\* type masks counted once for each
SummedMaskPixels(type_pixels, accepted) == SumOver(type_pixels, accepted)

\* cv2.countNonZero of the bitwise_or of the accepted type masks: on a uniform
\* image the masks are one and the same set of pixels
CombinedMaskPixels(type_pixels, accepted) ==
    IF accepted = {} THEN 0
    ELSE CHOOSE n \in {type_pixels[t] : t \in accepted} :
             \A t \in accepted : type_pixels[t] <= n

\* _calculate_total_forest_area, lines 1073-1145, after simple_result is there
CalculateTotalForestArea(img, scale, simple_result) ==
    LET total_pixels == img.pixels
        classify == simple_result.coverage_percent * 10 > 5
        masked == [t \in ForestTypeNames |->
                      TypePixels(t, img, simple_result.forest_pixels)]
        accepted == IF classify THEN {t \in ForestTypeNames : masked[t] > 100} ELSE {}
        type_pixels == [t \in ForestTypeNames |-> IF t \in accepted THEN masked[t] ELSE 0]
        typed_pixels == CombinedMaskPixels(type_pixels, accepted)
        general == ~classify \/ typed_pixels < 100
        forest_pixels == IF general THEN simple_result.forest_pixels ELSE typed_pixels
        total_weighted_carbon ==
            SumOver([t \in ForestTypeNames |->
                        vietnamese_forest_signatures[t].carbon_density * type_pixels[t]],
                    accepted)
        total_weighted_biomass ==
            SumOver([t \in ForestTypeNames |->
                        vietnamese_forest_signatures[t].biomass_density * type_pixels[t]],
                    accepted)
    IN  [kind             |-> "result",
         forest_pixels    |-> forest_pixels,
         area_ha          |-> AreaOfPixels(forest_pixels, scale),
         coverage_percent |-> (forest_pixels * 100) \div total_pixels,
         carbon_density   |-> IF forest_pixels > 0 /\ ~general
                              THEN total_weighted_carbon \div forest_pixels
                              ELSE 100,
         biomass_density  |-> IF forest_pixels > 0 /\ ~general
                              THEN total_weighted_biomass \div forest_pixels
                              ELSE 200,
         confidence       |-> Min(Conf(80), (forest_pixels * 10000) \div total_pixels),
         detected_types   |-> IF general THEN <<"general_vegetation">>
                              ELSE SelectTypes(SignatureOrder, accepted),
         type_pixels      |-> type_pixels]

\* health_factor of _calculate_forest_area_by_type, in hundredths: three times
\* the share of green in the mean colour, kept within 0.5 .. 1.0
HealthFactor(c) ==
    Min(100, Max(50, (300 * BGR(c)[2]) \div (BGR(c)[1] + BGR(c)[2] + BGR(c)[3])))

\* _calculate_forest_area_by_type, lines 982-1063, after simple_result is there
\* general_forest_mask, lines 985-999: the mask of the simple detection, or
\* the relaxed HSV mask when the simple detection covers less than 1%
GeneralForestPixels(img, simple_result) ==
    IF simple_result.coverage_percent < 1
    THEN (IF relaxed_hsv_mask(img.colour) THEN img.pixels ELSE 0)
    ELSE simple_result.forest_pixels

CalculateForestAreaByType(img, forest_type, scale, simple_result) ==
    LET total_pixels == img.pixels
        general_pixels == GeneralForestPixels(img, simple_result)
        in_ranges == TypePixels(forest_type, img, total_pixels)
        type_pixels == IF general_pixels > 100
                       THEN TypePixels(forest_type, img, general_pixels)
                       ELSE in_ranges
        forest_pixels == IF type_pixels * 1000 < total_pixels
                         THEN general_pixels ELSE type_pixels
        base_carbon == vietnamese_forest_signatures[forest_type].carbon_density
    IN  [kind             |-> "result",
         forest_pixels    |-> forest_pixels,
         area_ha          |-> AreaOfPixels(forest_pixels, scale),
         coverage_percent |-> (forest_pixels * 100) \div total_pixels,
         carbon_density   |-> IF forest_pixels > 0
                              THEN (base_carbon * (7000 + 30 * HealthFactor(img.colour)))
                                       \div 10000
                              ELSE base_carbon,
         biomass_density  |-> vietnamese_forest_signatures[forest_type].biomass_density,
         confidence       |-> IF forest_pixels > 0
                              THEN Min(Conf(90), (forest_pixels * 10000) \div total_pixels)
                              ELSE 0,
         detected_types   |-> <<forest_type>>,
         type_pixels      |-> [t \in ForestTypeNames |->
                                  IF t = forest_type THEN forest_pixels ELSE 0]]

\* _calculate_total_forest_area, from line 1074 on
TotalForestArea ==
    /\ d_entry = "_calculate_total_forest_area"
    /\ d_pc = "types"
    /\ d_area_result' = CalculateTotalForestArea(d_image, d_scale, d_result)
    /\ d_pc' = "returned"
    /\ UNCHANGED <<d_result, d_error, d_log>>
    /\ DetInputs

\* _calculate_forest_area_by_type, from line 984 on
ForestAreaByType ==
    /\ d_entry = "_calculate_forest_area_by_type"
    /\ d_pc = "types"
    /\ d_area_result' = CalculateForestAreaByType(d_image, d_forest_type, d_scale, d_result)
    /\ d_log' = IF d_result.coverage_percent < 1
                THEN d_log \cup {"using relaxed detection"} ELSE d_log
    /\ d_pc' = "returned"
    /\ UNCHANGED <<d_result, d_error>>
    /\ DetInputs

\* detect_area_comprehensive, lines 1338-1344: with use_ai the detector is
\* imported and called inside the try
ComprehensiveStart ==
    /\ d_entry = "detect_area_comprehensive"
    /\ d_pc = "start"
    /\ IF ~d_use_ai
       THEN /\ d_pc' = "imread"
            /\ UNCHANGED d_log
       ELSE IF ~AI_DETECTOR_AVAILABLE
       THEN /\ d_pc' = "imread"
            /\ d_log' = d_log \cup {"AI detection failed"}
       ELSE /\ d_pc' = "ai_call"
            /\ UNCHANGED d_log
    /\ UNCHANGED <<d_result, d_error>>
    /\ DetFrame

\* lines 1342-1364: a result with coverage is returned; otherwise the fallback
\* calls self.detect_area(image, scale_factor, forest_type)
ComprehensiveAIReturns ==
    /\ d_entry = "detect_area_comprehensive"
    /\ d_pc = "ai_call"
    /\ d_ai \in {"returns", "raises"}
    /\ IF d_ai = "returns" /\ d_ai_coverage > 0
       THEN /\ d_result' = AIResult(d_image, d_scale, d_ai_coverage)
            /\ d_pc' = "returned"
            /\ UNCHANGED d_log
       ELSE /\ d_pc' = "imread"
            /\ d_log' = IF d_ai = "raises" THEN d_log \cup {"AI detection failed"}
                        ELSE d_log
            /\ UNCHANGED d_result
    /\ UNCHANGED d_error
    /\ DetFrame

DetNext ==
    \/ ValidateProject
    \/ LoadImage
    \/ AnalyzeColorSpectrum
    \/ SimpleStart
    \/ SimpleAIReturns
    \/ SimpleTraditional
    \/ TotalForestArea
    \/ ForestAreaByType
    \/ ComprehensiveStart
    \/ ComprehensiveAIReturns

DetIdle ==
    /\ d_entry = "none"
    /\ d_pc = "idle"
    /\ d_project = [ecosystem_id |-> TRUE, ecosystem_found |-> TRUE]
    /\ d_image = [file |-> "missing", colour |-> "white", pixels |-> 40]
    /\ d_scale = 10
    /\ d_forest_type = "none"
    /\ d_area_result = NoAreaResult
    /\ d_use_ai = FALSE
    /\ d_ai = "unavailable"
    /\ d_ai_coverage = 0
    /\ d_result = NoResult
    /\ d_error = ""
    /\ d_log = {}

\* the calculation steps before they start: nothing calculated yet
CalcNotStarted ==
    /\ pc = "idle"
    /\ project = [has_geometry |-> FALSE, geometry_area |-> 0]
    /\ ecosystem = [biomass_growth_rate |-> 0]
    /\ project_age_years = 0
    /\ forest_analysis = DetectAreaResults([area_ha |-> 0, carbon_density |-> 2,
                                            confidence |-> 0])
    /\ project_carbon_stock = 0
    /\ baseline_carbon_stock = 0
    /\ net_carbon_benefit = 0
    /\ leakage_deduction = 0
    /\ uncertainty_deduction = 0
    /\ buffer_pool_contribution = 0
    /\ verified_carbon_units_tCO2e = 0
    /\ creditable_carbon_units_tCO2e = 0
    /\ methodology_compliance = NoCompliance
    /\ log = {}
    /\ error = ""

CalcIdle == CalcNotStarted /\ baseline_scenario = "historical_deforestation"

-----------------------------------------------------------------------------
(* Floating point *)

\* Python's float is a binary floating-point number: every literal, product,
\* quotient, sum and difference is the exact value rounded to the nearest
\* number with a fixed count of significant bits, ties to even.  The model
\* keeps that arithmetic at a narrower width: a float is an integer count of
\* 2^-FractionBits with at most MantissaBits significant bits.

MantissaBits == 6
FractionBits == 10
MaxNet == 40

FloatUnit == 2 ^ FractionBits

\* the power of two k with n / (d * k) below 2^MantissaBits
RECURSIVE Scale(_, _, _)
Scale(n, d, k) ==
    IF n \div (d * k) >= 2 ^ MantissaBits THEN Scale(n, d, 2 * k) ELSE k

\* n / d (n >= 0) rounded to the nearest float, ties to even
RoundNearestEven(n, d) ==
    LET k == Scale(n, d, 1)
        q == d * k
        m == n \div q
        r == n % q
    IN  (IF 2 * r > q \/ (2 * r = q /\ m % 2 = 1) THEN m + 1 ELSE m) * k

Round(n, d) == IF n < 0 THEN 0 - RoundNearestEven(0 - n, d) ELSE RoundNearestEven(n, d)

\* the float of a decimal literal num/den, and the quotient of two floats
\* holding the integers num and den
Float(num, den) == Round(num * FloatUnit, den)
FMul(a, b) == Round(a * b, FloatUnit)
FAdd(a, b) == Round(a + b, 1)
FSub(a, b) == Round(a - b, 1)

-----------------------------------------------------------------------------
(* processing/carbon_calculator.py: CarbonCalculator.run_full_calculation *)

MaxForests == 3
MaxAgb == 3

IPCC_ROOT_TO_SHOOT_RATIO == 26
IPCC_CARBON_FRACTION == 47
DEFAULT_LEAKAGE_FACTOR == 10
DEFAULT_PERMANENCE_BUFFER == 15

\* 44 / 12, a quotient of two floats
CO2_CONVERSION_FACTOR == Float(44, 12)

\* What the calculation of one forest meets:
\*   ok               every step completes
\*   no_plots         _calculate_forest_stock raises ValueError (no plots, line 93)
\*   no_equation      _get_equation_for_species raises ValueError (line 182)
\*   bad_formula      _evaluate_biomass_formula re-raises (line 197)
\*   no_dbh, no_stem_density, no_wood_density, no_species
\*                    a composition of its plot lacks that value (line 142)
\*   flush_error      the database refuses the CarbonStock row at the flush of
\*                    line 133 (a total beyond Numeric(15, 2), a lost connection)
\*   refresh_error    the credit record, expired by the commit of line 247,
\*                    cannot be loaded again when line 70 reads credits.credit_id
Fates == {"ok", "no_plots", "no_equation", "bad_formula",
          "no_dbh", "no_stem_density", "no_wood_density", "no_species",
          "flush_error", "refresh_error"}

\* the fates in which lines 95-97 add up the plots' biomass
FatesWithBiomass == Fates \ {"no_plots", "no_equation", "bad_formula"}

RECURSIVE SeqsUpTo(_, _)
SeqsUpTo(S, n) ==
    IF n = 0 THEN {<<>>}
    ELSE LET shorter == SeqsUpTo(S, n - 1)
         IN  shorter \cup {Append(q, x) : q \in {r \in shorter : Len(r) = n - 1}, x \in S}

\* comp.species of a composition without species (None)
NoSpecies == [wood_density |-> -1]

\* A composition row.  0 stands for a value that is None or zero (both are
\* false in line 142); agb_tonnes is what lines 146-164 make of the row: the
\* formula's result for one tree, by the stem density and the plot's area.
CompleteComposition(agb) ==
    [average_dbh |-> 30, stem_density |-> 400, species |-> [wood_density |-> 6],
     agb_tonnes |-> agb]

\* the tonnes of the complete composition of a plot whose forest is not "ok"
PlainAgb == 1

\* the biomass the plots of an "ok" forest can come to, in tonnes: a formula's
\* result is not bounded below by the code
AgbValues == (0 - 1)..MaxAgb

\* the compositions of the plot of a forest: a complete one, and before it
\* the one that lacks a value
PlotCompositions(fate, agb) ==
    LET complete == CompleteComposition(agb)
        lacking  == CompleteComposition(2)
    IN  CASE fate = "no_dbh"          -> <<[lacking EXCEPT !.average_dbh = 0], complete>>
          [] fate = "no_stem_density" -> <<[lacking EXCEPT !.stem_density = 0], complete>>
          [] fate = "no_wood_density" -> <<[lacking EXCEPT !.species = [wood_density |-> 0]],
                                           complete>>
          [] fate = "no_species"      -> <<[lacking EXCEPT !.species = NoSpecies], complete>>
          [] OTHER                    -> <<complete>>

\* lines 137-166, _calculate_biomass_for_plot.  The list of line 142 is built
\* before all() looks at it, so comp.species.wood_density is read of every
\* composition: without species it raises AttributeError.
RECURSIVE CalculateBiomassForPlot(_, _)
CalculateBiomassForPlot(comps, plot_agb) ==
    IF comps = <<>> THEN [raised |-> "", plot_agb |-> plot_agb, skipped |-> 0]
    ELSE LET comp == Head(comps)
         IN  IF comp.species = NoSpecies
             THEN [raised |-> "AttributeError", plot_agb |-> plot_agb, skipped |-> 0]
             ELSE IF comp.average_dbh = 0 \/ comp.stem_density = 0
                     \/ comp.species.wood_density = 0
                  THEN LET rest == CalculateBiomassForPlot(Tail(comps), plot_agb)
                       IN  [rest EXCEPT !.skipped = @ + 1]
                  ELSE CalculateBiomassForPlot(Tail(comps),
                                               FAdd(plot_agb, Float(comp.agb_tonnes, 1)))

\* lines 99-101 and 115-118: total_co2e of the CarbonStock record
TotalCo2e(total_agb) ==
    LET total_bgb            == FMul(total_agb, Float(IPCC_ROOT_TO_SHOOT_RATIO, 100))
        total_biomass_tonnes == FAdd(total_agb, total_bgb)
        total_carbon         == FMul(total_biomass_tonnes, Float(IPCC_CARBON_FRACTION, 100))
    IN  FMul(total_carbon, CO2_CONVERSION_FACTOR)

\* line 205: baseline_co2e of the Baseline record
BaselineCo2e(total_co2e) == FMul(total_co2e, Float(80, 100))

\* a quantification that takes the difference of stock and baseline as it is
QuantifyCreditsUnclamped(total_co2e, baseline_co2e) ==
    LET gross_reduction   == FSub(total_co2e, baseline_co2e)
        leakage           == FMul(gross_reduction, Float(DEFAULT_LEAKAGE_FACTOR, 100))
        net_reduction     == FSub(gross_reduction, leakage)
        buffer_deduction  == FMul(net_reduction, Float(DEFAULT_PERMANENCE_BUFFER, 100))
        issuable_credits  == FSub(net_reduction, buffer_deduction)
    IN  [emission_reduction_co2e |-> gross_reduction,
         leakage_deduction       |-> leakage,
         buffer_amount           |-> buffer_deduction,
         creditable_amount       |-> IF issuable_credits > 0 THEN issuable_credits ELSE 0]

\* lines 223-245, _quantify_credits: the amounts of the CarbonCredit record
QuantifyCredits(total_co2e, baseline_co2e) ==
    LET difference        == FSub(total_co2e, baseline_co2e)
        gross_reduction   == IF difference <= 0 THEN 0 ELSE difference
        leakage           == FMul(gross_reduction, Float(DEFAULT_LEAKAGE_FACTOR, 100))
        net_reduction     == FSub(gross_reduction, leakage)
        buffer_deduction  == FMul(net_reduction, Float(DEFAULT_PERMANENCE_BUFFER, 100))
        issuable_credits  == FSub(net_reduction, buffer_deduction)
    IN  [emission_reduction_co2e |-> gross_reduction,
         leakage_deduction       |-> leakage,
         buffer_amount           |-> buffer_deduction,
         creditable_amount       |-> IF issuable_credits > 0 THEN issuable_credits ELSE 0]

ForestInit ==
    /\ f_pc = "start"
    /\ f_forests \in SeqsUpTo(Fates, MaxForests)
    /\ f_index = 0
    /\ f_results = <<>>
    /\ f_error = ""
    /\ f_session = {}
    /\ f_committed = {}
    /\ f_active = TRUE
    /\ f_biomass = [raised |-> "", plot_agb |-> 0, skipped |-> 0]
    /\ f_total_co2e = 0
    /\ f_baseline_co2e = 0
    /\ f_credits = {}

ForestIdle ==
    /\ f_pc = "idle"
    /\ f_forests = <<>>
    /\ f_index = 0
    /\ f_results = <<>>
    /\ f_error = ""
    /\ f_session = {}
    /\ f_committed = {}
    /\ f_active = TRUE
    /\ f_biomass = [raised |-> "", plot_agb |-> 0, skipped |-> 0]
    /\ f_total_co2e = 0
    /\ f_baseline_co2e = 0
    /\ f_credits = {}

\* the entry appended for a forest whose calculation completed
SuccessEntry(i) == [forest_id |-> i, status |-> "Success", credit_id |-> i]

\* the entry the except clause appends
FailedEntry(i, e) == [forest_id |-> i, status |-> "Failed", error |-> e]

\* lines 56-60: the forests are queried; none is an error
QueryForests ==
    /\ f_pc = "start"
    /\ IF Len(f_forests) = 0
       THEN /\ f_pc' = "raised"
            /\ f_error' = "ValueError: No forests found for this project."
            /\ UNCHANGED f_index
       ELSE /\ f_pc' = "stock"
            /\ f_index' = 1
            /\ UNCHANGED f_error
    /\ UNCHANGED <<f_forests, f_results, f_session, f_committed, f_active, f_biomass,
                   f_total_co2e, f_baseline_co2e, f_credits>>

\* a loop that ends at the first forest
AfterForestAborting(i) == "returned"

\* the loop goes on to the next forest, or returns results_summary
AfterForest(i) == IF i < Len(f_forests) THEN "stock" ELSE "returned"

\* lines 72-78: the except clause appends the Failed entry and the loop goes
\* on; the session is not rolled back there
ForestFails(e) ==
    /\ f_results' = Append(f_results, FailedEntry(f_index, e))
    /\ f_pc' = AfterForest(f_index)
    /\ f_index' = f_index + 1

\* line 64, _calculate_forest_stock (lines 81-135): the biomass of the plots, then
\* the Biomass and CarbonStock records are added and flushed; an exception goes
\* to the except clause of lines 72-78.  A flush that fails rolls the session's
\* transaction back, and with it the rows flushed before; until rollback() is
\* called every statement of the session raises, the query of line 88 first.
ForestStock ==
    /\ f_pc = "stock"
    /\ LET fate == f_forests[f_index]
       IN  \E agb \in (IF fate = "ok" THEN AgbValues ELSE {PlainAgb}) :
             LET biomass == CalculateBiomassForPlot(PlotCompositions(fate, agb), 0)
             IN  IF ~f_active
                 THEN /\ ForestFails("PendingRollbackError")
                      /\ UNCHANGED <<f_session, f_active, f_biomass, f_total_co2e>>
                 ELSE IF fate \notin FatesWithBiomass
                 THEN /\ ForestFails(fate)
                      /\ UNCHANGED <<f_session, f_active, f_biomass, f_total_co2e>>
                 ELSE IF biomass.raised # ""
                 THEN /\ ForestFails(fate)
                      /\ f_biomass' = biomass
                      /\ UNCHANGED <<f_session, f_active, f_total_co2e>>
                 ELSE IF fate = "flush_error"
                 THEN /\ ForestFails(fate)
                      /\ f_biomass' = biomass
                      /\ f_session' = {}
                      /\ f_active' = FALSE
                      /\ UNCHANGED f_total_co2e
                 ELSE /\ f_biomass' = biomass
                      /\ f_total_co2e' = TotalCo2e(biomass.plot_agb)
                      /\ f_session' = f_session \cup {<<"Biomass", f_index>>,
                                                      <<"CarbonStock", f_index>>}
                      /\ f_pc' = "baseline"
                      /\ UNCHANGED <<f_results, f_index, f_active>>
    /\ UNCHANGED <<f_forests, f_error, f_committed, f_baseline_co2e, f_credits>>

\* line 65, _establish_forest_baseline (lines 199-216)
ForestBaseline ==
    /\ f_pc = "baseline"
    /\ f_baseline_co2e' = BaselineCo2e(f_total_co2e)
    /\ f_session' = f_session \cup {<<"Baseline", f_index>>}
    /\ f_pc' = "credits"
    /\ UNCHANGED <<f_forests, f_index, f_results, f_error, f_committed, f_active, f_biomass,
                   f_total_co2e, f_credits>>

\* lines 66-71, _quantify_credits (lines 218-248): the credit record is added and
\* the session committed; then line 70 reads credits.credit_id for the Success
\* entry, and an exception there goes to the except clause like any other
ForestCredits ==
    /\ f_pc = "credits"
    /\ f_credits' = f_credits \cup
           {[forest_id |-> f_index, total_co2e |-> f_total_co2e,
             baseline_co2e |-> f_baseline_co2e,
             amounts |-> QuantifyCredits(f_total_co2e, f_baseline_co2e)]}
    /\ f_committed' = f_committed \cup f_session \cup {<<"CarbonCredit", f_index>>}
    /\ f_session' = {}
    /\ f_results' = Append(f_results,
                           IF f_forests[f_index] = "refresh_error"
                           THEN FailedEntry(f_index, "refresh_error")
                           ELSE SuccessEntry(f_index))
    /\ f_pc' = AfterForest(f_index)
    /\ f_index' = f_index + 1
    /\ UNCHANGED <<f_forests, f_error, f_active, f_biomass, f_total_co2e, f_baseline_co2e>>

ForestNext ==
    \/ QueryForests
    \/ ForestStock
    \/ ForestBaseline
    \/ ForestCredits

-----------------------------------------------------------------------------
(* ai_forest_detector.py: detect_forest_comprehensive *)

\* The method is followed at one pixel of a uniform image, on which every
\* detector answers the same for all pixels and the post-processing keeps a
\* mask as it is. Confidences are in hundredths; a value of a combined map is
\* the fraction num / den.

\* method_weights of _ensemble_predictions, in hundredths
method_weights ==
    [m \in {"SegFormer-B5", "SegFormer-B3", "YOLOv8", "Enhanced Traditional"} |->
        CASE m = "SegFormer-B5" -> 35
          [] m = "SegFormer-B3" -> 25
          [] m = "YOLOv8" -> 20
          [] m = "Enhanced Traditional" -> 20]

\* the weights of the four masks of _enhanced_traditional_detection (hsv, lab,
\* texture, ndvi), in hundredths
traditional_weights == <<30, 25, 20, 25>>

MaskOf(b) == IF b THEN 255 ELSE 0

\* the YOLO mask as the ensemble receives it for a confidence map:
\* yolo_mask.astype(np.float32), 0.0 or 255.0
YoloConfidence(mask) == mask * 100

\* combined of _enhanced_traditional_detection: the weighted vote of its masks
TraditionalCombined(bits) ==
    SumSeq([k \in 1..4 |-> IF bits[k] THEN traditional_weights[k] ELSE 0])

EnsembleInit ==
    /\ a_pc = "segformer_b5"
    /\ a_models \in SUBSET {"segformer_b5", "segformer_b3", "yolo"}
    /\ a_segformer \in [{"segformer_b5", "segformer_b3"} ->
                            [vegetation : BOOLEAN, prob : {50, 100}]]
    /\ \A m \in {"segformer_b5", "segformer_b3"} :
           (m \notin a_models \/ ~a_segformer[m].vegetation) => a_segformer[m].prob = 100
    /\ a_yolo_box \in BOOLEAN
    /\ "yolo" \notin a_models => ~a_yolo_box
    /\ a_traditional \in [1..4 -> BOOLEAN]
    /\ all_masks = <<>>
    /\ all_confidences = <<>>
    /\ detection_methods = <<>>
    /\ final_mask = 0
    /\ confidence_map = [num |-> 0, den |-> 1]
    /\ confidence_score = [num |-> 0, den |-> 1]

EnsembleIdle ==
    /\ a_pc = "idle"
    /\ a_models = {}
    /\ a_segformer = [m \in {"segformer_b5", "segformer_b3"} |->
                         [vegetation |-> FALSE, prob |-> 100]]
    /\ a_yolo_box = FALSE
    /\ a_traditional = [k \in 1..4 |-> FALSE]
    /\ all_masks = <<>>
    /\ all_confidences = <<>>
    /\ detection_methods = <<>>
    /\ final_mask = 0
    /\ confidence_map = [num |-> 0, den |-> 1]
    /\ confidence_score = [num |-> 0, den |-> 1]

EnsembleInputs == UNCHANGED <<a_models, a_segformer, a_yolo_box, a_traditional>>

\* a detector's mask and confidence map join the lists
Contribute(mask, confidence, method) ==
    /\ all_masks' = Append(all_masks, mask)
    /\ all_confidences' = Append(all_confidences, confidence)
    /\ detection_methods' = Append(detection_methods, method)

NoContribution == UNCHANGED <<all_masks, all_confidences, detection_methods>>

\* lines 214-226 with _detect_with_segformer (lines 288-359): where the predicted
\* class is a vegetation class the mask is set and the confidence is the softmax
\* probability of that class; a model that fails gives the empty result
DetectWithSegformer(model_key, method, next) ==
    /\ a_pc = model_key
    /\ IF model_key \in a_models /\ a_segformer[model_key].vegetation
       THEN Contribute(255, a_segformer[model_key].prob, method)
       ELSE NoContribution
    /\ a_pc' = next
    /\ UNCHANGED <<final_mask, confidence_map, confidence_score>>
    /\ EnsembleInputs

DetectSegformerB5 == DetectWithSegformer("segformer_b5", "SegFormer-B5", "segformer_b3")

DetectSegformerB3 == DetectWithSegformer("segformer_b3", "SegFormer-B3", "yolo")

\* lines 228-234 with _detect_trees_with_yolo (lines 361-390): the boxes are
\* filled with 255, and the mask itself is appended as the confidence map
DetectTreesWithYolo ==
    /\ a_pc = "yolo"
    /\ IF "yolo" \in a_models /\ a_yolo_box
       THEN Contribute(255, YoloConfidence(255), "YOLOv8")
       ELSE NoContribution
    /\ a_pc' = "traditional"
    /\ UNCHANGED <<final_mask, confidence_map, confidence_score>>
    /\ EnsembleInputs

\* lines 236-241 with _enhanced_traditional_detection (lines 558-606): the mask
\* is the vote thresholded at 0.4, the confidence map the vote itself
EnhancedTraditionalDetection ==
    /\ a_pc = "traditional"
    /\ LET combined == TraditionalCombined(a_traditional)
       IN  IF combined >= 40
           THEN Contribute(255, combined, "Enhanced Traditional")
           ELSE NoContribution
    /\ a_pc' = "ensemble"
    /\ UNCHANGED <<final_mask, confidence_map, confidence_score>>
    /\ EnsembleInputs

\* the weight of the k-th contributing method
WeightOf(k) == method_weights[detection_methods[k]]

\* lines 243-251 with _ensemble_predictions (lines 392-429); with no mask at all
\* the traditional result is returned as it is
EnsemblePredictions ==
    /\ a_pc = "ensemble"
    /\ IF Len(all_masks) > 0
       THEN LET n == Len(all_masks)
                total_weight == SumSeq([k \in 1..n |-> WeightOf(k)])
                mask_votes == SumSeq([k \in 1..n |-> (all_masks[k] \div 255) * WeightOf(k)])
                threshold == IF n > 2 THEN 4 ELSE 5
            IN  /\ final_mask' = MaskOf(mask_votes * 10 >= threshold * total_weight)
                /\ confidence_map' =
                       [num |-> SumSeq([k \in 1..n |-> all_confidences[k] * WeightOf(k)]),
                        den |-> total_weight]
                /\ a_pc' = "metrics"
                /\ UNCHANGED confidence_score
       ELSE /\ final_mask' = 0
            /\ confidence_map' = [num |-> TraditionalCombined(a_traditional), den |-> 1]
            /\ confidence_score' = [num |-> 0, den |-> 1]
            /\ a_pc' = "returned"
    /\ NoContribution
    /\ EnsembleInputs

\* lines 262-285: the confidence score is the mean of the confidence map over
\* the mask, 0 for an empty mask
FinalMetrics ==
    /\ a_pc = "metrics"
    /\ confidence_score' = IF final_mask > 0 THEN confidence_map
                           ELSE [num |-> 0, den |-> 1]
    /\ a_pc' = "returned"
    /\ UNCHANGED <<final_mask, confidence_map>>
    /\ NoContribution
    /\ EnsembleInputs

EnsembleNext ==
    \/ DetectSegformerB5
    \/ DetectSegformerB3
    \/ DetectTreesWithYolo
    \/ EnhancedTraditionalDetection
    \/ EnsemblePredictions
    \/ FinalMetrics

-----------------------------------------------------------------------------
(* forest_detector.py: concurrent calls of _simple_forest_detection *)

\* The requests of the API share the module's forest_detector and the machine's
\* /tmp; each run goes through the traditional detection of lines 1238-1321 on
\* its own image, and every cv2.imwrite is a step of its own.

Runs == {1, 2}

\* the debug files in the order they are written (lines 1270-1273, 1280, 1296)
DebugFiles == <<"hsv_mask.jpg", "lab_mask.jpg", "rgb_mask.jpg", "exg_mask.jpg",
                "combined_before_cleanup.jpg", "final_forest_mask.jpg">>

\* the uniform content of the mask a run on image img writes to the k-th file
DebugContent(img, k) ==
    LET c == img.colour
        combined == BoolCount(hsv_mask(c)) + BoolCount(lab_mask(c))
                    + BoolCount(rgb_mask(c)) + BoolCount(exg_mask(c))
    IN  CASE k = 1 -> MaskOf(hsv_mask(c))
          [] k = 2 -> MaskOf(lab_mask(c))
          [] k = 3 -> MaskOf(rgb_mask(c))
          [] k = 4 -> MaskOf(exg_mask(c))
          [] k = 5 -> MaskOf(combined >= 2)
          [] k = 6 -> MaskOf(TraditionalDetection(img, 10).forest_pixels > 0)

RunsInit ==
    /\ r_pc = [r \in Runs |-> 1]
    /\ r_image \in [Runs -> [file : {"array"}, colour : Colours, pixels : {10000}]]
    /\ r_image[1] # r_image[2]
    /\ r_result = [r \in Runs |-> NoResult]
    /\ debug_dir = [k \in 1..Len(DebugFiles) |-> "absent"]

RunsIdle ==
    /\ r_pc = [r \in Runs |-> 0]
    /\ r_image = [r \in Runs |-> [file |-> "array", colour |-> "white", pixels |-> 10000]]
    /\ r_result = [r \in Runs |-> NoResult]
    /\ debug_dir = [k \in 1..Len(DebugFiles) |-> "absent"]

\* the position of a run that has returned
RunReturned == Len(DebugFiles) + 1

\* lines 1267-1273: one of the four masks is written to its file
WriteMask(r) ==
    /\ r_pc[r] \in 1..4
    /\ debug_dir' = [debug_dir EXCEPT ![r_pc[r]] = DebugContent(r_image[r], r_pc[r])]
    /\ r_pc' = [r_pc EXCEPT ![r] = @ + 1]
    /\ UNCHANGED <<r_image, r_result>>

\* lines 1275-1281: the vote, written before the clean-up
WriteCombined(r) ==
    /\ r_pc[r] = 5
    /\ debug_dir' = [debug_dir EXCEPT ![5] = DebugContent(r_image[r], 5)]
    /\ r_pc' = [r_pc EXCEPT ![r] = 6]
    /\ UNCHANGED <<r_image, r_result>>

\* lines 1283-1321: the final mask is written and the result returned
WriteFinalAndReturn(r) ==
    /\ r_pc[r] = 6
    /\ debug_dir' = [debug_dir EXCEPT ![6] = DebugContent(r_image[r], 6)]
    /\ r_result' = [r_result EXCEPT ![r] = TraditionalDetection(r_image[r], 10)]
    /\ r_pc' = [r_pc EXCEPT ![r] = RunReturned]
    /\ UNCHANGED r_image

RunsNext ==
    \E r \in Runs :
        \/ WriteMask(r)
        \/ WriteCombined(r)
        \/ WriteFinalAndReturn(r)

-----------------------------------------------------------------------------
(* carbon_calculator.py: steps 5 to 8 in floating point *)

\* a leakage factor that takes the market leakage of the largest projects
\* for every area
FloatTotalLeakageFactorLargestTier(fa) ==
    Min(Float(30, 100), FAdd(Float(20, 100), Float(leakage_belt_factor, 100)))

\* _calculate_leakage_deduction, lines 312-328
FloatTotalLeakageFactor(fa) ==
    LET project_area_ha == fa.total_area_ha
        market_leakage_factor == IF project_area_ha > Ha(1000) THEN Float(20, 100)
                                 ELSE IF project_area_ha > Ha(100) THEN Float(15, 100)
                                 ELSE Float(10, 100)
        activity_leakage_factor == Float(leakage_belt_factor, 100)
    IN  Min(Float(30, 100), FAdd(market_leakage_factor, activity_leakage_factor))

\* _calculate_uncertainty_deduction, line 339
FloatUncertaintyPercentage(ua) == Float(ua.uncertainty_percentage, 100)

\* _calculate_buffer_pool_contribution, lines 352-372
FloatTotalBufferPercentage(p, ua) ==
    LET base_buffer == Float(buffer_pool_minimum, 100)
        risk_adjustment == IF ua.uncertainty_level = "high" THEN Float(15, 100)
                           ELSE IF ua.uncertainty_level = "medium" THEN Float(10, 100)
                           ELSE Float(5, 100)
        size_risk == IF p.geometry_area < Ha(100) THEN Float(5, 100) ELSE 0
    IN  Min(Float(30, 100), FAdd(FAdd(base_buffer, risk_adjustment), size_risk))

FloatInit ==
    /\ fl_pc = "leakage"
    /\ \E area \in Areas, c \in Confidences :
          fl_forest_analysis =
              [total_area_ha |-> area,
               uncertainty_assessment |-> AssessUncertainty(c, area)]
    /\ fl_project \in {p \in Projects : HasGeometry(p)}
    /\ fl_net \in {n * FloatUnit : n \in 0..MaxNet}
    /\ fl_leakage = 0
    /\ fl_uncertainty = 0
    /\ fl_buffer = 0
    /\ fl_creditable_tC = 0
    /\ fl_creditable_units = 0

FloatIdle ==
    /\ fl_pc = "idle"
    /\ fl_forest_analysis =
           [total_area_ha |-> 0, uncertainty_assessment |-> AssessUncertainty(0, 0)]
    /\ fl_project = [has_geometry |-> TRUE, geometry_area |-> Ha(100)]
    /\ fl_net = 0
    /\ fl_leakage = 0
    /\ fl_uncertainty = 0
    /\ fl_buffer = 0
    /\ fl_creditable_tC = 0
    /\ fl_creditable_units = 0

\* line 330: leakage_deduction = net_carbon_benefit * total_leakage_factor
FloatLeakage ==
    /\ fl_pc = "leakage"
    /\ fl_leakage' = FMul(fl_net, FloatTotalLeakageFactor(fl_forest_analysis))
    /\ fl_pc' = "uncertainty"
    /\ UNCHANGED <<fl_forest_analysis, fl_project, fl_net, fl_uncertainty, fl_buffer,
                   fl_creditable_tC, fl_creditable_units>>

\* line 340: uncertainty_deduction = net_carbon_benefit * uncertainty_percentage
FloatUncertainty ==
    /\ fl_pc = "uncertainty"
    /\ fl_uncertainty' =
           FMul(fl_net, FloatUncertaintyPercentage(fl_forest_analysis.uncertainty_assessment))
    /\ fl_pc' = "buffer"
    /\ UNCHANGED <<fl_forest_analysis, fl_project, fl_net, fl_leakage, fl_buffer,
                   fl_creditable_tC, fl_creditable_units>>

\* line 374: buffer_pool_contribution = net_carbon_benefit * total_buffer_percentage
FloatBuffer ==
    /\ fl_pc = "buffer"
    /\ fl_buffer' =
           FMul(fl_net, FloatTotalBufferPercentage(fl_project,
                                                   fl_forest_analysis.uncertainty_assessment))
    /\ fl_pc' = "finalize"
    /\ UNCHANGED <<fl_forest_analysis, fl_project, fl_net, fl_leakage, fl_uncertainty,
                   fl_creditable_tC, fl_creditable_units>>

\* lines 171-177: the three subtractions, the conversion and the clamp
FloatFinalize ==
    /\ fl_pc = "finalize"
    /\ LET net_benefit_after_leakage == FSub(fl_net, fl_leakage)
           net_benefit_after_uncertainty == FSub(net_benefit_after_leakage, fl_uncertainty)
           creditable_carbon_tC == FSub(net_benefit_after_uncertainty, fl_buffer)
       IN  /\ fl_creditable_tC' = creditable_carbon_tC
           /\ fl_creditable_units' = Max(0, FMul(creditable_carbon_tC, Float(44, 12)))
    /\ fl_pc' = "done"
    /\ UNCHANGED <<fl_forest_analysis, fl_project, fl_net, fl_leakage, fl_uncertainty,
                   fl_buffer>>

FloatNext ==
    \/ FloatLeakage
    \/ FloatUncertainty
    \/ FloatBuffer
    \/ FloatFinalize

-----------------------------------------------------------------------------
(* endpoints/p2p.py: concurrent purchase_credits requests on one listing *)

\* The endpoint is a plain def: the framework runs each request in a worker
\* thread with a session of its own, and the requests meet in the database.
\* The code takes no lock, and reads and writes the row in separate statements.

MaxBuyers == 2
MaxQuantity == 2

Buyers == 1..MaxBuyers

PurchaseInit ==
    /\ p_pc = [b \in Buyers |-> "start"]
    /\ p_listed \in 1..MaxQuantity
    /\ p_listing = [quantity |-> p_listed, status |-> "Active"]
    /\ p_loaded = [b \in Buyers |-> 0]
    /\ p_quantity = [b \in Buyers |-> 0]
    /\ p_tx = [b \in Buyers |-> "none"]

PurchaseIdle ==
    /\ p_pc = [b \in Buyers |-> "idle"]
    /\ p_listed = 0
    /\ p_listing = [quantity |-> 0, status |-> "Active"]
    /\ p_loaded = [b \in Buyers |-> 0]
    /\ p_quantity = [b \in Buyers |-> 0]
    /\ p_tx = [b \in Buyers |-> "none"]

\* lines 69-88: the listing is loaded and checked against the request, and the
\* transaction row is created as PENDING (no buyer is the seller)
LoadAndCheck(b) ==
    /\ p_pc[b] = "start"
    /\ \E quantity \in 1..MaxQuantity :
          /\ p_quantity' = [p_quantity EXCEPT ![b] = quantity]
          /\ IF p_listing.status # "Active"
             THEN /\ p_pc' = [p_pc EXCEPT ![b] = "not_found"]
                  /\ UNCHANGED <<p_loaded, p_tx>>
             ELSE IF quantity > p_listing.quantity
             THEN /\ p_pc' = [p_pc EXCEPT ![b] = "not_enough"]
                  /\ UNCHANGED <<p_loaded, p_tx>>
             ELSE /\ p_pc' = [p_pc EXCEPT ![b] = "charge"]
                  /\ p_loaded' = [p_loaded EXCEPT ![b] = p_listing.quantity]
                  /\ p_tx' = [p_tx EXCEPT ![b] = "PENDING"]
    /\ UNCHANGED <<p_listing, p_listed>>

\* lines 91-104: the charge; a ValueError of the payment service marks the
\* transaction FAILED and ends the request with status 402
Charge(b) ==
    /\ p_pc[b] = "charge"
    /\ \E paid \in BOOLEAN :
          IF paid
          THEN /\ p_tx' = [p_tx EXCEPT ![b] = "COMPLETED"]
               /\ p_pc' = [p_pc EXCEPT ![b] = "update"]
          ELSE /\ p_tx' = [p_tx EXCEPT ![b] = "FAILED"]
               /\ p_pc' = [p_pc EXCEPT ![b] = "payment_failed"]
    /\ UNCHANGED <<p_listing, p_listed, p_loaded, p_quantity>>

\* lines 107-112: the remaining quantity is computed from listing.quantity and
\* written with the status.  listing.quantity is the value loaded at line 69,
\* or the row's value now if the commits in between made the session load it
\* again (the CRUD layer decides; either way nothing holds the row).
UpdateListing(b) ==
    /\ p_pc[b] = "update"
    /\ \E quantity \in {p_loaded[b], p_listing.quantity} :
          LET remaining_quantity == quantity - p_quantity[b]
              new_status == IF remaining_quantity = 0 THEN "Sold" ELSE "Active"
          IN  p_listing' = [quantity |-> remaining_quantity, status |-> new_status]
    /\ p_pc' = [p_pc EXCEPT ![b] = "done"]
    /\ UNCHANGED <<p_listed, p_loaded, p_quantity, p_tx>>

PurchaseNext ==
    \E b \in Buyers :
        \/ LoadAndCheck(b)
        \/ Charge(b)
        \/ UpdateListing(b)

-----------------------------------------------------------------------------
(* Specifications *)

\* the credit calculation over a forest analysis
Init == CalcInit /\ DetIdle /\ ForestIdle /\ EnsembleIdle /\ RunsIdle /\ FloatIdle /\ PurchaseIdle

Next == CalcNext /\ UNCHANGED <<detVars, forestVars, ensVars, runVars, floatVars, purchaseVars>>

Spec == Init /\ [][Next]_vars

\* a call into the forest detector
InitDetect ==
    /\ DetInit
    /\ CalcNotStarted
    /\ baseline_scenario \in
           (IF d_entry = "calculate_vcs_compliant_credits" THEN Scenarios
            ELSE {"historical_deforestation"})
    /\ ForestIdle
    /\ EnsembleIdle
    /\ RunsIdle
    /\ PurchaseIdle
    /\ FloatIdle

NextDetect == DetNext /\ UNCHANGED <<calcVars, forestVars, ensVars, runVars, floatVars, purchaseVars>>

SpecDetect == InitDetect /\ [][NextDetect]_vars

\* the same, with every enabled step of the call eventually taken: the call is
\* synchronous and runs to its end unless a callee does not return
FairSpecDetect == SpecDetect /\ WF_vars(NextDetect)

\* run_full_calculation
InitForests == ForestInit /\ CalcIdle /\ DetIdle /\ EnsembleIdle /\ RunsIdle /\ FloatIdle /\ PurchaseIdle

NextForests == ForestNext /\ UNCHANGED <<calcVars, detVars, ensVars, runVars, floatVars, purchaseVars>>

SpecForests == InitForests /\ [][NextForests]_vars

\* the AI detector's ensemble
InitEnsemble == EnsembleInit /\ CalcIdle /\ DetIdle /\ ForestIdle /\ RunsIdle /\ FloatIdle /\ PurchaseIdle

NextEnsemble == EnsembleNext /\ UNCHANGED <<calcVars, detVars, forestVars, runVars, floatVars, purchaseVars>>

SpecEnsemble == InitEnsemble /\ [][NextEnsemble]_vars

\* two detection runs at the same time, their steps interleaved in any order
InitRuns == RunsInit /\ CalcIdle /\ DetIdle /\ ForestIdle /\ EnsembleIdle /\ FloatIdle /\ PurchaseIdle

NextRuns == RunsNext /\ UNCHANGED <<calcVars, detVars, forestVars, ensVars, floatVars, purchaseVars>>

SpecRuns == InitRuns /\ [][NextRuns]_vars

\* steps 5 to 8 of the credit calculation with the rounding of floats
InitFloat == FloatInit /\ CalcIdle /\ DetIdle /\ ForestIdle /\ EnsembleIdle /\ RunsIdle /\ PurchaseIdle

NextFloat == FloatNext /\ UNCHANGED <<calcVars, detVars, forestVars, ensVars, runVars, purchaseVars>>

SpecFloat == InitFloat /\ [][NextFloat]_vars

InitPurchase == PurchaseInit /\ CalcIdle /\ DetIdle /\ ForestIdle /\ EnsembleIdle /\ RunsIdle /\ FloatIdle

NextPurchase == PurchaseNext /\ UNCHANGED <<calcVars, detVars, forestVars, ensVars, runVars, floatVars>>

SpecPurchase == InitPurchase /\ [][NextPurchase]_vars

-----------------------------------------------------------------------------
(* Properties of the credit calculation *)

Returned == pc = "done"

PastBaseline == pc \in {"net", "leakage", "uncertainty", "buffer", "finalize", "done"}
               \/ (pc = "raised" /\ error = "ValueError: Project has no geometry.")

\* The fixed-point representation is exact: no division above truncates.
TypeOK ==
    /\ project_carbon_stock % 60 = 0
    /\ baseline_carbon_stock % 60 = 0
    /\ net_carbon_benefit % 60 = 0 /\ net_carbon_benefit >= 0
    /\ leakage_deduction % 3 = 0
    /\ uncertainty_deduction % 3 = 0
    /\ buffer_pool_contribution % 3 = 0
    /\ forest_analysis.uncertainty_assessment.uncertainty_percentage % 5 = 0
    /\ TotalLeakageFactor(forest_analysis) % 5 = 0

\* C1: every returned result has
\* creditable_carbon_units_tCO2e <= verified_carbon_units_tCO2e <= net_carbon_benefit_tC
\* (the three numbers compared as they are stored).
C1_CreditableLeVerifiedLeNet ==
    Returned =>
        /\ creditable_carbon_units_tCO2e <= verified_carbon_units_tCO2e
        /\ verified_carbon_units_tCO2e <= net_carbon_benefit

\* C1, in one unit: every returned result has creditable <= verified, and verified is at
\* most the net carbon benefit converted to CO2e (net_carbon_benefit_tC x 44/12).
C1_CreditableLeVerifiedLeNetCO2e ==
    Returned =>
        /\ creditable_carbon_units_tCO2e <= verified_carbon_units_tCO2e
        /\ verified_carbon_units_tCO2e <= Co2ToC(net_carbon_benefit)

\* a returned result with a positive benefit and positive credits.
C1_Witness ==
    /\ Returned
    /\ net_carbon_benefit > 0
    /\ creditable_carbon_units_tCO2e > 0
    /\ leakage_deduction > 0

\* x = net * (1 - l%) * (1 - u%) * (1 - b%) * 44/12, exactly (l, u, b multiples of 5)
IsRoundTrip(x, net, l, u, b) ==
    LET P == ((100 - l) \div 5) * ((100 - u) \div 5) * ((100 - b) \div 5)
        q == net \div 24000
        r == net % 24000
    IN  /\ (r * P * 11) % 24000 = 0
        /\ x = q * P * 11 + (r * P * 11) \div 24000

\* C2: in every returned result the creditable units equal
\* net benefit x (1 - leakage%) x (1 - uncertainty%) x (1 - buffer%) x 44/12,
\* with the percentages applied in that run.
C2_RoundTrip ==
    Returned =>
        IsRoundTrip(creditable_carbon_units_tCO2e, net_carbon_benefit,
                    TotalLeakageFactor(forest_analysis),
                    forest_analysis.uncertainty_assessment.uncertainty_percentage,
                    TotalBufferPercentage(project, forest_analysis.uncertainty_assessment))

AnyGateFails ==
    \/ forest_analysis.total_area_ha < TenthHa(5)
    \/ forest_analysis.uncertainty_assessment.confidence_score < Conf(30)
    \/ ~forest_analysis.uncertainty_assessment.vcs_compliant

\* C3: a returned result of a run in which a compliance gate fails
\* (area < 0.5 ha, confidence < 0.3, or an invalid uncertainty assessment)
\* has vcs_eligible = false.
C3_GateFailureNotEligible ==
    (Returned /\ AnyGateFails) => ~methodology_compliance.vcs_eligible

\* The growth scaling a run applies, in halves
GrowthHalves ==
    IF ecosystem.biomass_growth_rate # 0
    THEN GrowthFactor(ecosystem.biomass_growth_rate, project_age_years)
    ELSE 2

\* C4: with the forest analysis as detect_area returns it, the project
\* carbon stock is the detected area x carbon density (x growth factor), and a
\* positive detected area never gives a stock of 0.
C4_StockIsDetectedAreaTimesDensity ==
    (pc # "stock" /\ forest_analysis.forest_types = <<>>) =>
        /\ project_carbon_stock =
               StockOf(forest_analysis.total_area_ha,
                       forest_analysis.weighted_carbon_density_tC_ha, GrowthHalves)
        /\ forest_analysis.total_area_ha > 0 => project_carbon_stock > 0

\* The creditable units of a run with net benefit net and uncertainty assessment ua
CreditableFor(net, fa, p, ua) ==
    CreditableUnits(net,
                    CalculateLeakageDeduction(net, fa),
                    CalculateUncertaintyDeduction(net, ua),
                    CalculateBufferPoolContribution(net, p, ua))

TierRank(level) == IF level = "high" THEN 3 ELSE IF level = "medium" THEN 2 ELSE 1

\* C5: with net benefit, leakage and project area fixed, any assessment that
\* _assess_uncertainty can produce with a higher uncertainty percentage or tier
\* never yields more creditable units than the run's own, strictly fewer when
\* the net benefit is positive; and the run's creditable units are at most the undiscounted amount (net x 44/12), strictly
\* less when the net benefit is positive.
C5_UncertaintyMonotone ==
    Returned =>
        LET ua  == forest_analysis.uncertainty_assessment
            net == net_carbon_benefit
        IN  /\ creditable_carbon_units_tCO2e <= Co2ToC(net)
            /\ net > 0 => creditable_carbon_units_tCO2e < Co2ToC(net)
            /\ \A c2 \in Confidences, a2 \in Areas :
                 LET ua2 == AssessUncertainty(c2, a2)
                     cr2 == CreditableFor(net, forest_analysis, project, ua2)
                 IN  /\ (ua2.uncertainty_percentage >= ua.uncertainty_percentage
                         /\ TierRank(ua2.uncertainty_level) >= TierRank(ua.uncertainty_level))
                        => cr2 <= creditable_carbon_units_tCO2e
                     /\ (net > 0
                         /\ (ua2.uncertainty_percentage > ua.uncertainty_percentage
                             \/ TierRank(ua2.uncertainty_level) > TierRank(ua.uncertainty_level)))
                        => cr2 < creditable_carbon_units_tCO2e

\* a returned medium-tier result with a positive net benefit, which has
\* both a lower and a higher tier to compare with.
C5_Witness ==
    /\ Returned
    /\ net_carbon_benefit > 0
    /\ forest_analysis.uncertainty_assessment.uncertainty_level = "medium"

\* The baseline step on an unknown scenario name: the baseline is the no-loss
\* baseline total_area_ha x weighted_carbon_density, which no known scenario
\* exceeds, and the warning is logged.
UnknownScenarioBaselineIsNoLoss ==
    (baseline_scenario \notin KnownScenarios /\ PastBaseline) =>
        /\ baseline_carbon_stock =
               ShareOf(forest_analysis.total_area_ha,
                       forest_analysis.weighted_carbon_density_tC_ha, 100)
        /\ "unknown_baseline_scenario" \in log
        /\ \A s \in KnownScenarios :
               CalculateBaselineScenario(forest_analysis, s).stock
                   <= baseline_carbon_stock

-----------------------------------------------------------------------------
(* Properties of run_full_calculation *)

ForestTerminal == f_pc \in {"returned", "raised"}

CountStatus(st) == Cardinality({i \in 1..Len(f_results) : f_results[i].status = st})

\* whether a flush failed in the calculation of a forest before forest i
SessionBrokenBefore(i) == \E j \in 1..(i - 1) : f_forests[j] = "flush_error"

\* whether the calculation of forest i runs to its end, and the exception that
\* ends it otherwise
Completes(i) ==
    /\ ~SessionBrokenBefore(i)
    /\ f_forests[i] \in {"ok", "no_dbh", "no_stem_density", "no_wood_density"}

ErrorOf(i) == IF SessionBrokenBefore(i) THEN "PendingRollbackError" ELSE f_forests[i]

\* the loop is at a step and at a forest of the project: a step of ForestNext
\* can be taken
CanStep ==
    \/ f_pc = "start"
    \/ /\ f_pc \in {"stock", "baseline", "credits"}
       /\ f_index \in 1..Len(f_forests)

-----------------------------------------------------------------------------
(* Properties of the detector's entry points *)

\* a call of one of the two area calculations that has returned
AreaReturned ==
    /\ d_entry \in {"_calculate_total_forest_area", "_calculate_forest_area_by_type"}
    /\ d_pc = "returned"

\* the sum of the areas attributed to the accepted forest types
SumOfTypeAreas ==
    SumOver([t \in ForestTypeNames |-> AreaOfPixels(d_area_result.type_pixels[t], d_scale)],
            ForestTypeNames)

\* C11: in every result of the detection over all signatures, the areas
\* attributed to the accepted forest types add up to at most the area of the
\* combined mask, which is the total area reported.
C11_TypeAreasWithinTotal ==
    (d_entry = "_calculate_total_forest_area" /\ d_pc = "returned")
    => SumOfTypeAreas <= d_area_result.area_ha

\* the area of the whole image: height x width x scale_factor^2
ImageArea == AreaOfPixels(d_image.pixels, d_scale)

\* C12: the forest area of every detection result - the AI result and the
\* traditional result of _simple_forest_detection and of
\* detect_area_comprehensive, the result for a specified type with or without
\* the fallback to the general mask and with the relaxed detection, and the
\* result over all types - is at least 0 and at most the area of the image.
C12_AreaWithinImage ==
    /\ d_result.kind = "result" =>
           (0 <= d_result.area_ha /\ d_result.area_ha <= ImageArea)
    /\ d_area_result.kind = "result" =>
           (0 <= d_area_result.area_ha /\ d_area_result.area_ha <= ImageArea)

\* a result over all types in which several overlapping types were accepted and
\* the forest fills the image
C12_Witness ==
    /\ d_entry = "_calculate_total_forest_area"
    /\ d_pc = "returned"
    /\ Len(d_area_result.detected_types) > 1
    /\ d_area_result.area_ha = ImageArea

\* C13: every forest type listed among the detected types of a result over all
\* types, and so included in the weighted carbon and biomass sums, has an area
\* of more than 0.01 ha.
C13_DetectedTypeAboveFloor ==
    (d_entry = "_calculate_total_forest_area" /\ d_pc = "returned") =>
        \A k \in 1..Len(d_area_result.detected_types) :
            LET t == d_area_result.detected_types[k]
            IN  t \in ForestTypeNames =>
                    AreaOfPixels(d_area_result.type_pixels[t], d_scale) > DetCentiHa(1)

\* C6: a credit calculation called with a scenario name other than the three
\* known ones, for a project with an ecosystem and an image that loads, that has
\* ended has returned a result, and did not raise.
C6_UnknownScenarioRunReturns ==
    (/\ d_entry = "calculate_vcs_compliant_credits"
     /\ baseline_scenario \notin KnownScenarios
     /\ d_project.ecosystem_id /\ d_project.ecosystem_found
     /\ d_image.file = "loadable"
     /\ DetTerminal)
    => d_pc = "returned"

\* C8: when the AI detector is unavailable or its call raises, a call of
\* _simple_forest_detection or of detect_area_comprehensive that has ended has
\* returned a detection result, and did not raise.
C8_AIFailureNeverFatal ==
    (/\ d_entry \in {"_simple_forest_detection", "detect_area_comprehensive"}
     /\ d_use_ai
     /\ d_ai \in {"unavailable", "raises"}
     /\ DetTerminal)
    => (d_pc = "returned" /\ d_result.kind = "result")

\* C9: on a loadable all-white image, a call of detect_area, or a credit
\* calculation of a project with an ecosystem, that has ended has not raised,
\* and found a forest area of 0.
C9_NoForestIsNotAnError ==
    (/\ d_entry \in {"detect_area", "calculate_vcs_compliant_credits"}
     /\ d_project.ecosystem_id /\ d_project.ecosystem_found
     /\ d_image.file = "loadable"
     /\ d_image.colour = "white"
     /\ DetTerminal)
    => (d_pc = "returned" /\ d_result.kind = "result" /\ d_result.area_ha = 0)

\* C10: a detection call that has called the AI detector eventually ends, even
\* when the AI detector never returns.
C10_AICallIsBounded == (d_pc = "ai_call") ~> DetTerminal

-----------------------------------------------------------------------------
(* Properties of the AI detector's ensemble *)

\* a confidence value num / den lies in [0, 1]
InUnitInterval(v) == 0 <= v.num /\ v.num <= 100 * v.den

\* C14: every value of every confidence map - of each contributing detector and
\* of the ensemble - lies in [0, 1], and so does the confidence score of the
\* result, whichever detectors contributed.
C14_ConfidenceInUnitInterval ==
    /\ \A k \in 1..Len(all_confidences) :
           0 <= all_confidences[k] /\ all_confidences[k] <= 100
    /\ InUnitInterval(confidence_map)
    /\ InUnitInterval(confidence_score)

-----------------------------------------------------------------------------
(* Properties of the deductions of a calculation run *)

PastUncertainty == pc \in {"buffer", "finalize", "done", "raised"}

PastBuffer == pc \in {"finalize", "done"}

\* C16: the uncertainty deduction is the uncertainty percentage of what
\* remains of the net benefit after the leakage deduction
\* (both sides times 20; percentages are multiples of 5).
C16_UncertaintyOnNetAfterLeakage ==
    PastUncertainty =>
        uncertainty_deduction * 20 =
            (net_carbon_benefit - leakage_deduction)
            * (forest_analysis.uncertainty_assessment.uncertainty_percentage \div 5)

\* C17: the buffer-pool contribution is the buffer percentage of what remains
\* of the net benefit after the leakage and the uncertainty deductions.
C17_BufferOnRemainingNet ==
    PastBuffer =>
        buffer_pool_contribution * 20 =
            ((net_carbon_benefit - leakage_deduction) - uncertainty_deduction)
            * (TotalBufferPercentage(project, forest_analysis.uncertainty_assessment)
               \div 5)

\* the positions of a run in the order of the function body
StepOrder == <<"stock", "baseline", "net", "leakage", "uncertainty", "buffer",
               "finalize", "done">>

\* the value each step produces, and the position the step is taken at
ProducedAt ==
    <<[at |-> "stock",       old |-> project_carbon_stock,
                             new |-> project_carbon_stock'],
      [at |-> "baseline",    old |-> baseline_carbon_stock,
                             new |-> baseline_carbon_stock'],
      [at |-> "net",         old |-> net_carbon_benefit,
                             new |-> net_carbon_benefit'],
      [at |-> "leakage",     old |-> leakage_deduction,
                             new |-> leakage_deduction'],
      [at |-> "uncertainty", old |-> uncertainty_deduction,
                             new |-> uncertainty_deduction'],
      [at |-> "buffer",      old |-> buffer_pool_contribution,
                             new |-> buffer_pool_contribution'],
      [at |-> "finalize",    old |-> verified_carbon_units_tCO2e,
                             new |-> verified_carbon_units_tCO2e'],
      [at |-> "finalize",    old |-> creditable_carbon_units_tCO2e,
                             new |-> creditable_carbon_units_tCO2e']>>

-----------------------------------------------------------------------------
(* Properties of the uncertainty assessment and the leakage factor *)

\* the tier and the percentage the confidence alone stands for
TierOfConfidence(c) ==
    IF c >= Conf(80) THEN <<"low", 10>>
    ELSE IF c >= Conf(60) THEN <<"medium", 20>>
    ELSE <<"high", 35>>

\* C19: for the detected area of the run and every confidence, at and around
\* the two thresholds, _assess_uncertainty gives (low, 10) from 0.8,
\* (medium, 20) from 0.6 and (high, 35) below; under 1 ha the tier is high
\* and the percentage 10 points more; the percentage is within [0, 100],
\* recommended_buffer is 1.5 times the percentage (15 tenths of a percent
\* per point) and vcs_compliant is true.  The assessment the run carries is
\* the one of its own confidence and area.
C19_AssessUncertaintyMapping ==
    LET a == forest_analysis.total_area_ha
        own == forest_analysis.uncertainty_assessment
    IN  /\ own = AssessUncertainty(own.confidence_score, a)
        /\ \A c \in Confidences \cup {Conf(59), Conf(79), Conf(100)} :
              LET ua == AssessUncertainty(c, a)
                  t  == TierOfConfidence(c)
              IN  /\ a >= Ha(1) => /\ ua.uncertainty_level = t[1]
                                   /\ ua.uncertainty_percentage = t[2]
                  /\ a < Ha(1)  => /\ ua.uncertainty_level = "high"
                                   /\ ua.uncertainty_percentage = t[2] + 10
                  /\ ua.uncertainty_percentage \in 0..100
                  /\ ua.recommended_buffer = 15 * ua.uncertainty_percentage
                  /\ ua.vcs_compliant
                  /\ ua.confidence_score = c

\* a finalized run on less than a hectare detected with confidence 0.8:
\* tier high and 20 percent, where the confidence alone gives low and 10
C19_Witness ==
    /\ Returned
    /\ forest_analysis.total_area_ha > 0
    /\ forest_analysis.total_area_ha < Ha(1)
    /\ forest_analysis.uncertainty_assessment.confidence_score = Conf(80)
    /\ forest_analysis.uncertainty_assessment.uncertainty_level = "high"
    /\ forest_analysis.uncertainty_assessment.uncertainty_percentage = 20
    /\ uncertainty_deduction = Pct(net_carbon_benefit, 20)
    /\ net_carbon_benefit > 0

PastLeakage == pc \in {"uncertainty", "buffer", "finalize", "done", "raised"}

\* C20: the leakage deduction is the net benefit times the leakage factor,
\* the smaller of 30% and market leakage plus the fixed activity-displacement
\* factor, with market leakage 20% above 1000 ha, 15% above 100 ha and 10%
\* otherwise; the deduction is never more than 30% of the net benefit.  The
\* area is the one the run reads as project_area_ha, the total area of the
\* forest analysis.
C20_LeakageIsNetTimesCappedFactor ==
    LET a == forest_analysis.total_area_ha
        market == IF a > Ha(1000) THEN 20 ELSE IF a > Ha(100) THEN 15 ELSE 10
        factor == IF market + leakage_belt_factor > 30
                  THEN 30 ELSE market + leakage_belt_factor
    IN  /\ TotalLeakageFactor(forest_analysis) = factor
        /\ TotalLeakageFactor(forest_analysis) <= 30
        /\ PastLeakage =>
              /\ leakage_deduction * 20 = net_carbon_benefit * (factor \div 5)
              /\ leakage_deduction * 10 <= net_carbon_benefit * 3

\* a finalized run on more than 1000 ha with a positive net benefit: market
\* leakage 20% plus 15% is capped, and 30% of the net benefit is deducted
C20_Witness ==
    /\ Returned
    /\ forest_analysis.total_area_ha > Ha(1000)
    /\ net_carbon_benefit > 0
    /\ leakage_deduction * 10 = net_carbon_benefit * 3

-----------------------------------------------------------------------------
(* Properties of concurrent detection runs *)

\* the debug files as a run on image img leaves them when it runs alone
ArtefactsAlone(img) == [k \in 1..Len(DebugFiles) |-> DebugContent(img, k)]

\* C15: two detection runs on different images do not touch each other's
\* state: under every interleaving a run that returns has the result, and
\* leaves the artefacts, that it has when it runs alone.
C15_RunsAreIndependent ==
    \A r \in Runs :
        r_pc[r] = RunReturned =>
            /\ r_result[r] = TraditionalDetection(r_image[r], 10)
            /\ r_pc[3 - r] \in {1, RunReturned} =>
                   \E q \in Runs : debug_dir = ArtefactsAlone(r_image[q])

-----------------------------------------------------------------------------
(* Properties of the buffer percentage and the baseline *)

\* C21: the buffer percentage is min(30, 10 + risk + size), with risk 15, 10,
\* 5 for the tiers high, medium, low and size 5 exactly when the area the
\* leakage tiers are taken on, the total area of the forest analysis, is
\* below 100 ha; the contribution of the run is taken at that percentage.
C21_BufferPercentage ==
    LET ua   == forest_analysis.uncertainty_assessment
        risk == IF ua.uncertainty_level = "high" THEN 15
                ELSE IF ua.uncertainty_level = "medium" THEN 10 ELSE 5
        size == IF forest_analysis.total_area_ha < Ha(100) THEN 5 ELSE 0
        percentage == IF 10 + risk + size > 30 THEN 30 ELSE 10 + risk + size
    IN  PastBuffer =>
            /\ TotalBufferPercentage(project, ua) = percentage
            /\ buffer_pool_contribution * 20 = net_carbon_benefit * (percentage \div 5)

\* C22: for the three named scenarios the baseline is total area x weighted
\* density less the scenario's loss, 2% for each year of project age for
\* historical_deforestation, 50% for business_as_usual and 30% for
\* degradation, and the scenario the run was given is the one applied.
C22_BaselineLossByScenario ==
    LET a == forest_analysis.total_area_ha
        d == forest_analysis.weighted_carbon_density_tC_ha
        loss == CASE baseline_scenario = "historical_deforestation"
                         -> 2 * project_age_years
                  [] baseline_scenario = "business_as_usual" -> 50
                  [] baseline_scenario = "degradation" -> 30
                  [] OTHER -> 0
    IN  (PastBaseline /\ baseline_scenario \in KnownScenarios) =>
            baseline_carbon_stock = ShareOf(a, d, 100 - loss)

-----------------------------------------------------------------------------
(* Properties of the detection for a specified forest type *)

\* C23: for a specified forest type the mask the area is taken on is the
\* type's colour-range mask within the combined forest mask, so it never has
\* more pixels than the combined forest mask (on a uniform image: it is a
\* subset of it); where that intersection is under 0.1% of the image the
\* combined forest mask itself is used; and the call returns.
C23_TypeMaskWithinForestMask ==
    (d_entry = "_calculate_forest_area_by_type" /\ DetTerminal) =>
        LET general == GeneralForestPixels(d_image, d_result)
            within  == TypePixels(d_forest_type, d_image, general)
        IN  /\ d_pc = "returned"
            /\ d_area_result.forest_pixels <= general
            /\ d_area_result.forest_pixels =
                   IF within * 1000 < d_image.pixels THEN general ELSE within

-----------------------------------------------------------------------------
(* Properties of the deductions in floating point *)

FloatReturned == fl_pc = "done"

\* C24, the claim's inequality: in every result the three deductions add up
\* to at most the net benefit, and the creditable amount is non-negative
\* before the clamp.
C24_DeductionsWithinNet ==
    FloatReturned =>
        /\ fl_leakage + fl_uncertainty + fl_buffer <= fl_net
        /\ fl_creditable_tC >= 0

\* C24, up to rounding: for every combination of detected area, confidence
\* and project area the three percentages add up to at most 100, as numbers
\* and as floats; in every result the deductions exceed the net benefit, and
\* the creditable amount falls below 0 before the clamp, by less than
\* 2^-(MantissaBits - 2) of the net benefit; and the creditable units, after
\* the clamp, are non-negative.
C24_DeductionsWithinNetUpToRounding ==
    LET ua == fl_forest_analysis.uncertainty_assessment
    IN  /\ fl_pc # "idle" =>
              /\ TotalLeakageFactor(fl_forest_analysis) + ua.uncertainty_percentage
                     + TotalBufferPercentage(fl_project, ua) <= 100
              /\ FloatTotalLeakageFactor(fl_forest_analysis)
                     + FloatUncertaintyPercentage(ua)
                     + FloatTotalBufferPercentage(fl_project, ua) <= FloatUnit
        /\ FloatReturned =>
              /\ (fl_leakage + fl_uncertainty + fl_buffer - fl_net)
                     * (2 ^ (MantissaBits - 2)) <= fl_net
              /\ (0 - fl_creditable_tC) * (2 ^ (MantissaBits - 2)) <= fl_net
              /\ fl_creditable_units >= 0

\* a result on less than a hectare, confidence under 0.6 and a boundary under
\* 100 ha: 25% + 45% + 30% of the net benefit are deducted, their sum is
\* above the net benefit and the creditable amount is clamped from below 0
C24_Witness ==
    /\ FloatReturned
    /\ fl_net > 0
    /\ fl_forest_analysis.total_area_ha < Ha(1)
    /\ fl_forest_analysis.uncertainty_assessment.uncertainty_percentage = 45
    /\ fl_project.geometry_area < Ha(100)
    /\ fl_leakage + fl_uncertainty + fl_buffer > fl_net
    /\ fl_creditable_tC < 0
    /\ fl_creditable_units = 0

\* the forest types a result of _calculate_total_forest_area names
DetectedSignatures ==
    {d_area_result.detected_types[i] : i \in 1..Len(d_area_result.detected_types)}
        \cap ForestTypeNames

\* C25: where _calculate_total_forest_area detected forest types, the carbon
\* density and the biomass density it returns lie between the smallest and
\* the largest density of those types.
C25_DensityWithinDetectedTypes ==
    (d_entry = "_calculate_total_forest_area" /\ d_pc = "returned"
        /\ DetectedSignatures # {}) =>
        /\ \E t \in DetectedSignatures :
              vietnamese_forest_signatures[t].carbon_density <= d_area_result.carbon_density
        /\ \E t \in DetectedSignatures :
              d_area_result.carbon_density <= vietnamese_forest_signatures[t].carbon_density
        /\ \E t \in DetectedSignatures :
              vietnamese_forest_signatures[t].biomass_density <= d_area_result.biomass_density
        /\ \E t \in DetectedSignatures :
              d_area_result.biomass_density <= vietnamese_forest_signatures[t].biomass_density

-----------------------------------------------------------------------------
(* Properties of the failures of a calculation run *)

\* C26: a calculation that has its ecosystem and its forest analysis does not
\* fail: whatever the project, also one without boundary geometry, no step
\* of the run raises.
C26_RunWithAnalysisDoesNotFail ==
    pc # "raised"


-----------------------------------------------------------------------------
(* Properties of the records run_full_calculation writes *)

ReportedAs(i, st) ==
    \E k \in 1..Len(f_results) : f_results[k].forest_id = i /\ f_results[k].status = st

RecordsOf(i) == {<<"Biomass", i>>, <<"CarbonStock", i>>, <<"Baseline", i>>, <<"CarbonCredit", i>>}

\* C27: the committed records are exactly those of the forests reported as
\* Success: no record of a forest whose calculation failed after some of its
\* records were added to the session is ever committed, by its own commit or
\* by the commit of a later forest, and a forest reported as Success has its
\* four records committed.
C27_CommittedAreThoseOfSuccess ==
    /\ \A rec \in f_committed : ReportedAs(rec[2], "Success")
    /\ \A i \in 1..Len(f_forests) : ReportedAs(i, "Success") => RecordsOf(i) \subseteq f_committed

\* the default deductions add up, in exact arithmetic, to the whole reduction
Abs(x) == IF x < 0 THEN 0 - x ELSE x

SumOfParts(a) == a.leakage_deduction + a.buffer_amount + a.creditable_amount

LackingFates == {"no_dbh", "no_stem_density", "no_wood_density", "no_species"}

\* C29: a plot composition that lacks the average DBH, the stem density, the
\* species or the species' wood density is skipped and adds nothing to the
\* plot's biomass, and never makes the calculation of its forest fail: the
\* biomass is that of the plot's complete composition, and the forest is
\* reported as Success unless the session was broken before it.
C29_LackingCompositionIsSkipped ==
    /\ \A i \in 1..Len(f_results) :
          (f_forests[i] \in LackingFates /\ ~SessionBrokenBefore(i))
              => f_results[i].status = "Success"
    /\ (f_pc \in {"baseline", "credits"} /\ f_forests[f_index] \in LackingFates)
          => /\ f_biomass.skipped = 1
             /\ f_biomass.plot_agb = Float(PlainAgb, 1)


-----------------------------------------------------------------------------
(* Properties of concurrent purchases *)

\* the quantity of the COMPLETED transactions on the listing
CompletedQuantity ==
    SumOver([b \in Buyers |-> IF p_tx[b] = "COMPLETED" THEN p_quantity[b] ELSE 0], Buyers)

\* C30: however the purchase requests on a listing interleave, the listing's
\* quantity is never negative and the COMPLETED transactions never add up to
\* more than the quantity listed; a request whose payment fails leaves the
\* listing's quantity and status as they are.
C30_PurchasesWithinListing ==
    /\ [](p_listing.quantity >= 0 /\ CompletedQuantity <= p_listed)
    /\ [][\A b \in Buyers : p_pc'[b] = "payment_failed" => p_listing' = p_listing]_vars

====
